---- MODULE Spec2Model ----
(***************************************************************************)
(* A model of the ded-pipe pipeline orchestration engine:                  *)
(*   ded_io/models.py        ProcessingResult, EditorialCutInfo, ShotInfo, *)
(*                           ImageSequence                                 *)
(*   ded_io/config.py        PipelineConfig: names and paths               *)
(*   ded_io/stages/base.py   PipelineStage.execute (the template method)   *)
(*   ded_io/pipeline.py      Pipeline and ConditionalPipeline              *)
(*   ded_io/footage_ingest.py, ingest-cli.py   the entry points            *)
(*                                                                         *)
(* A Python dict is a record whose fields hold the value stored under the  *)
(* key, or Absent when the key is not in the dict.  An Optional[float] is  *)
(* a sequence of length 0 (None) or 1.  A message is a tuple of its parts, *)
(* so that "the message contains the error text" is membership of a part.  *)
(*                                                                         *)
(* Assumptions about the environment, stated where they are used:          *)
(*   - a stage's process() either returns or raises an Exception (not a    *)
(*     BaseException such as KeyboardInterrupt), and it never writes       *)
(*     shot_info.processing_status (no stage class of the repository does) *)
(*   - time.time() does not step backwards during a stage.                 *)
(***************************************************************************)
EXTENDS Integers, Sequences, FiniteSets, TLC

(* ------------------------------ bounds --------------------------------- *)
\* the longest stage list of a Pipeline
MaxStages == 3
\* the longest stage list of a ConditionalPipeline
MaxCondStages == 2
\* the latest reading of the clock (time.time()) in a behaviour
MaxClock == 1
\* the most add_error / add_warning calls one process() makes
MaxCalls == 3

(* ------------------------------ values --------------------------------- *)
Names == {"A", "B"}
Absent == "absent"

\* the keys of a result's data dict that the orchestrator knows, and one other
EmptyData ==
    [dpx_sequence |-> Absent, output_sequence |-> Absent,
     proxy_file |-> Absent, other |-> Absent]

\* the data payloads a stage's process() may leave on its result
OnlyOther == [EmptyData EXCEPT !.other = "x"]
OnlyDpx == [EmptyData EXCEPT !.dpx_sequence = "s1"]
AllKnown ==
    [EmptyData EXCEPT !.dpx_sequence = "s1", !.output_sequence = "s2",
                      !.proxy_file = "p1"]
OnlyProxy == [EmptyData EXCEPT !.proxy_file = "p2"]
DataChoices == {EmptyData, OnlyOther, OnlyDpx, AllKnown, OnlyProxy}

\* what a stage's process() does: it returns cleanly, returns after add_error,
\* or raises an Exception whose str() is text; in each case with the data it
\* has put on the result by then
NoText == "none"
Outcome(kind, data, text) == [kind |-> kind, data |-> data, text |-> text]
Outcomes ==
    { Outcome("ok", EmptyData, NoText),
      Outcome("ok", AllKnown, NoText),
      Outcome("ok", OnlyProxy, NoText),
      Outcome("errors", OnlyDpx, NoText),
      Outcome("raise", OnlyOther, "boom") }

\* the keyword arguments a caller passes to execute()
KwargChoices ==
    { [input_sequence |-> Absent, proxy_file |-> Absent],
      [input_sequence |-> "s0", proxy_file |-> "p0"] }

NoOutputs == [n \in Names |-> EmptyData]

(* ------------------------- ProcessingResult ---------------------------- *)
None == << >>
Some(v) == << v >>

ProcessingResult(stage_name, success, message) ==
    [stage_name |-> stage_name, success |-> success, message |-> message,
     data |-> EmptyData, errors |-> << >>, warnings |-> << >>,
     duration_seconds |-> None]

add_error(r, error) ==
    [r EXCEPT !.errors = Append(@, error), !.success = FALSE]

\* a slip: add_warning clears success as add_error does
add_warning_Fails(r, warning) ==
    [r EXCEPT !.warnings = Append(@, warning), !.success = FALSE]

add_warning(r, warning) ==
    [r EXCEPT !.warnings = Append(@, warning)]

(* ------------------- EditorialCutInfo, ShotInfo ------------------------ *)
HEAD_HANDLE_FRAMES == 8
TAIL_HANDLE_FRAMES == 8
DEFAULT_FIRST_FRAME == 993

\* the dataclass: the fields are stored as given, nothing is checked
EditorialCutInfo(in_point, out_point) ==
    [in_point |-> in_point, out_point |-> out_point]

duration_frames(cut) == cut.out_point - cut.in_point + 1

\* the dataclass and its __post_init__: the frame range is computed only
\* when the caller gave no last_frame
ShotInfo(cut, first_frame, last_frame, total_frames) ==
    IF last_frame = None
    THEN LET total == duration_frames(cut)
                        + HEAD_HANDLE_FRAMES + TAIL_HANDLE_FRAMES
         IN  [editorial_info |-> cut, first_frame |-> first_frame,
              total_frames |-> Some(total),
              last_frame |-> Some(first_frame + total - 1)]
    ELSE [editorial_info |-> cut, first_frame |-> first_frame,
          total_frames |-> total_frames, last_frame |-> last_frame]

\* IngestCLI.validate_shot_data, the part on the two points: a point that is
\* 0 counts as missing, and the in point must be below the out point
validate_shot_data(in_point, out_point) ==
    /\ in_point # 0
    /\ out_point # 0
    /\ ~(in_point >= out_point)

(* --------------------------- PipelineConfig ---------------------------- *)
\* A string is the sequence of its characters, so that equal strings are
\* equal values.  A path is the sequence of its components, each a string.
VERSION_PADDING == 3
FRAME_PADDING == 4
SHOT_TREE_ROOT == << <<"/">>, <<"m", "n", "t">>, <<"p", "r", "o", "j", "e", "c", "t", "s">> >>

DigitChars == <<"0", "1", "2", "3", "4", "5", "6", "7", "8", "9">>

\* str(n) for n >= 0
RECURSIVE Digits(_)
Digits(n) ==
    IF n < 10
    THEN << DigitChars[n + 1] >>
    ELSE Append(Digits(n \div 10), DigitChars[(n % 10) + 1])

\* a slip: the number is cut to the width
RECURSIVE ZeroPad_Truncate(_, _)
ZeroPad_Truncate(ds, width) ==
    IF Len(ds) > width THEN ZeroPad_Truncate(Tail(ds), width)
    ELSE IF Len(ds) = width THEN ds
    ELSE ZeroPad_Truncate(<<"0">> \o ds, width)

\* the format spec 0{width}d on a number that is not negative: zeros are
\* put in front up to the width, a longer number is left as it is
RECURSIVE ZeroPad(_, _)
ZeroPad(ds, width) ==
    IF Len(ds) >= width THEN ds ELSE ZeroPad(<<"0">> \o ds, width)

format_shot_name(sequence, shot) == sequence \o shot

format_version(version) ==
    <<"v">> \o ZeroPad(Digits(version), VERSION_PADDING)

format_frame(frame) == ZeroPad(Digits(frame), FRAME_PADDING)

get_version_container_name(shot_name, task, element, version) ==
    shot_name \o <<"_">> \o task \o <<"_">> \o element \o <<"_">>
        \o format_version(version)

\* a slip: the representation is left out of the name
get_base_filename_NoRep(shot_name, task, element, version, rep, colorspace) ==
    LET version_str == format_version(version)
    IN  shot_name \o <<"_">> \o task \o <<"_">> \o element \o <<"_">>
            \o version_str \o <<"_">> \o colorspace

get_base_filename(shot_name, task, element, version, rep, colorspace) ==
    LET version_str == format_version(version)
    IN  shot_name \o <<"_">> \o task \o <<"_">> \o element \o <<"_">>
            \o version_str \o <<"_">> \o rep \o <<"_">> \o colorspace

get_sequence_filename(shot_name, task, element, version, rep, colorspace, frame, extension) ==
    LET base == get_base_filename(shot_name, task, element, version, rep,
                                  colorspace)
        frame_str == format_frame(frame)
    IN  base \o <<".">> \o frame_str \o <<".">> \o extension

get_movie_filename(shot_name, task, element, version, rep, colorspace, extension) ==
    LET base == get_base_filename(shot_name, task, element, version, rep,
                                  colorspace)
    IN  base \o <<".">> \o extension

\* the runs of a string between its "/" characters
RECURSIVE Segments(_, _)
Segments(str, cur) ==
    IF str = << >> THEN << cur >>
    ELSE IF Head(str) = "/" THEN << cur >> \o Segments(Tail(str), << >>)
    ELSE Segments(Tail(str), Append(cur, Head(str)))

\* pathlib's parsing of a string: empty runs and "." are dropped
Parts(str) ==
    SelectSeq(Segments(str, << >>), LAMBDA g : g # << >> /\ g # <<".">>)

IsAbsolute(str) == str # << >> /\ Head(str) = "/"

\* pathlib's path / str: an absolute right operand replaces the path
PathJoin(path, str) ==
    IF IsAbsolute(str)
    THEN << <<"/">> >> \o Parts(str)
    ELSE path \o Parts(str)

get_shot_path(shot_name) == PathJoin(SHOT_TREE_ROOT, shot_name)

get_task_path(shot_name, task) == PathJoin(get_shot_path(shot_name), task)

get_version_path(shot_name, task, element, version) ==
    LET container_name ==
            get_version_container_name(shot_name, task, element, version)
    IN  PathJoin(get_task_path(shot_name, task), container_name)

get_colorspace_path(shot_name, task, element, version, rep, colorspace) ==
    LET version_path == get_version_path(shot_name, task, element, version)
    IN  PathJoin(version_path, rep \o <<"_">> \o colorspace)

(* --------------------------- ImageSequence ----------------------------- *)
ImageSequence(first_frame, last_frame, frame_padding) ==
    [directory |-> << <<"/">>, <<"d">> >>, base_name |-> <<"s">>,
     extension |-> <<"e", "x", "r">>, first_frame |-> first_frame,
     last_frame |-> last_frame, frame_padding |-> frame_padding]

\* str(frame).zfill(frame_padding), for a frame that is not negative
get_frame_path(seq, frame) ==
    LET frame_str == ZeroPad(Digits(frame), seq.frame_padding)
    IN  PathJoin(seq.directory,
                 seq.base_name \o <<".">> \o frame_str \o <<".">>
                     \o seq.extension)

\* the loop of verify_exists from frame on, existing_frames so far
RECURSIVE VerifyLoop(_, _, _, _)
VerifyLoop(seq, on_disk, frame, existing) ==
    IF frame > seq.last_frame
    THEN existing
    ELSE VerifyLoop(seq, on_disk, frame + 1,
                    IF get_frame_path(seq, frame) \in on_disk
                    THEN Append(existing, frame)
                    ELSE existing)

\* a slip: range(first_frame, last_frame) leaves the last frame out
verify_exists_ShortRange(seq, on_disk) ==
    VerifyLoop([seq EXCEPT !.last_frame = @ - 1], on_disk,
               seq.first_frame, << >>)

\* for frame in range(first_frame, last_frame + 1)
verify_exists(seq, on_disk) ==
    VerifyLoop(seq, on_disk, seq.first_frame, << >>)

\* the arguments of the docstrings' example
ExampleArgs ==
    [shot_name |-> format_shot_name(<<"s", "h", "t">>, <<"1", "0", "0">>),
     task |-> <<"p", "l", "a">>,
     element |-> <<"r", "a", "w", "P", "l", "a", "t", "e">>,
     version |-> 1, rep |-> <<"m", "a", "i", "n">>,
     colorspace |-> <<"A", "C", "E", "S", "c", "g">>,
     frame |-> 993, extension |-> <<"e", "x", "r">>]

(* ----------------------- PipelineStage.execute ------------------------- *)
MsgCompleted(name) == <<"Stage", name, "completed successfully">>
MsgWithErrors(name) == <<"Stage", name, "completed with errors">>
MsgException(name, text) == <<"Stage", name, "failed with exception:", text>>
ProcessError == <<"process error">>

\* the result object as process() leaves it (when it raises: at the raise)
process(r, o) ==
    LET d == [r EXCEPT !.data = o.data]
    IN  IF o.kind = "errors" THEN add_error(d, ProcessError) ELSE d

\* the try / except of execute: the message after a clean return, or the
\* conversion of the exception into an error entry
AfterProcess(name, r, o) ==
    IF o.kind = "raise"
    THEN [add_error([r EXCEPT !.success = FALSE], MsgException(name, o.text))
            EXCEPT !.message = MsgException(name, o.text)]
    ELSE IF r.success
         THEN [r EXCEPT !.message = MsgCompleted(name)]
         ELSE [r EXCEPT !.message = MsgWithErrors(name)]

\* a slip: the operands of the subtraction exchanged
Elapsed_Swapped(start_time, end_time) == start_time - end_time

\* the finally block: the duration is the end time minus the start time
Elapsed(start_time, end_time) == end_time - start_time

StageExecute(name, o, start_time, end_time) ==
    LET fresh == ProcessingResult(name, TRUE, << >>)
        done == AfterProcess(name, process(fresh, o), o)
    IN  [done EXCEPT !.duration_seconds = Some(Elapsed(start_time, end_time))]

(* ------------------------ Pipeline.save_report ------------------------- *)
\* what the file system does to the with block: the file is written,
\* open() raises, or json.dump raises on a value it cannot serialize
IoOutcomes == {"written", "open_fails", "dump_fails"}

to_dict(r) ==
    [stage_name |-> r.stage_name, success |-> r.success,
     message |-> r.message, data |-> r.data, errors |-> r.errors,
     warnings |-> r.warnings, duration_seconds |-> r.duration_seconds]

\* the dict that is dumped (without its execution_time)
ReportOf(res) == [stage_results |-> [k \in DOMAIN res |-> to_dict(res[k])]]

\* a slip: the except clause is missing
save_report_NoExcept(res, io) ==
    IF res = << >>
    THEN [results |-> res, raised |-> FALSE, file |-> None,
          log |-> "No results to save"]
    ELSE IF io = "written"
         THEN [results |-> res, raised |-> FALSE,
               file |-> Some(ReportOf(res)), log |-> "Report saved"]
         ELSE [results |-> res, raised |-> TRUE, file |-> None,
               log |-> "none"]

\* save_report: self.results afterwards, whether the call raised, the
\* report that is in the file, and what was logged
save_report(res, io) ==
    IF res = << >>
    THEN [results |-> res, raised |-> FALSE, file |-> None,
          log |-> "No results to save"]
    ELSE IF io = "written"
         THEN [results |-> res, raised |-> FALSE,
               file |-> Some(ReportOf(res)), log |-> "Report saved"]
         ELSE [results |-> res, raised |-> FALSE, file |-> None,
               log |-> "Failed to save report"]

(* --------------------------- Pipeline ---------------------------------- *)
\* pipeline_data = dict(kwargs)
InitialData(kw) ==
    [input_sequence |-> kw.input_sequence, proxy_file |-> kw.proxy_file,
     outputs |-> NoOutputs]

\* a slip: 'dpx_sequence' is not mapped to 'input_sequence'
MergeOutputs_NoDpx(pd, name, data) ==
    IF data = EmptyData
    THEN pd
    ELSE LET b == IF data.output_sequence # Absent
                  THEN [pd EXCEPT !.input_sequence = data.output_sequence]
                  ELSE pd
             c == IF data.proxy_file # Absent
                  THEN [b EXCEPT !.proxy_file = data.proxy_file]
                  ELSE b
         IN  [c EXCEPT !.outputs[name] = data]

\* a slip: the results of the earlier run are kept
ResetResults_Keep(earlier) == earlier

\* self.results = [] at the head of execute()
ResetResults(earlier) == << >>

\* the merge of a result's data into pipeline_data
MergeOutputs(pd, name, data) ==
    IF data = EmptyData
    THEN pd
    ELSE LET a == IF data.dpx_sequence # Absent
                  THEN [pd EXCEPT !.input_sequence = data.dpx_sequence]
                  ELSE pd
             b == IF data.output_sequence # Absent
                  THEN [a EXCEPT !.input_sequence = data.output_sequence]
                  ELSE a
             c == IF data.proxy_file # Absent
                  THEN [b EXCEPT !.proxy_file = data.proxy_file]
                  ELSE b
         IN  [c EXCEPT !.outputs[name] = data]

\* a slip: a succeeding stage puts the status back to "processing"
StatusAfterStage_Reset(status, success) ==
    IF ~success THEN "error" ELSE "processing"

\* if not result.success: shot_info.processing_status = "error"
StatusAfterStage(status, success) ==
    IF ~success THEN "error" ELSE status

\* a slip: the loop runs the same stage again
NextStage_Retry(k) == k

\* for i, stage in enumerate(self.stages, 1): the stage after stage k
NextStage(k) == k + 1

\* a slip: the break is missing
LoopBreaks_Never(success, stop) == FALSE

\* the loop leaves at a failure when stop_on_error, else it goes on
LoopBreaks(success, stop) == ~success /\ stop

\* a slip: the final status is set without looking at the status
FinalStatus_Always(status) == "complete"

\* if shot_info.processing_status != "error": ... = "complete"
FinalStatus(status) ==
    IF status # "error" THEN "complete" ELSE status

CountSuccess(res) == Cardinality({i \in DOMAIN res : res[i].success})

_build_summary(stgs, res, status) ==
    LET total_stages == Len(stgs)
        successful_stages == CountSuccess(res)
    IN  [total_stages |-> total_stages,
         successful_stages |-> successful_stages,
         failed_stages |-> total_stages - successful_stages,
         overall_success |-> (status = "complete"),
         processing_status |-> status,
         stage_results |-> res]

(* ------------------- ingest_shot and the command line ------------------ *)
\* the stages of create_ingest_pipeline, cut down to two
IngestStages == <<"A", "B">>

\* Pipeline.execute as a function of what the stages do: the loop from
\* stage k on, with the results and the status so far
RECURSIVE ExecuteFrom(_, _, _, _, _, _)
ExecuteFrom(stgs, outs, stop, k, res, st) ==
    IF k > Len(stgs)
    THEN _build_summary(stgs, res, FinalStatus(st))
    ELSE LET r == StageExecute(stgs[k], outs[k], 0, 0)
             after == StatusAfterStage(st, r.success)
         IN  IF LoopBreaks(r.success, stop)
             THEN _build_summary(stgs, Append(res, r), FinalStatus(after))
             ELSE ExecuteFrom(stgs, outs, stop, NextStage(k),
                              Append(res, r), after)

\* ingest_shot: pipeline.execute(shot_info=shot_info, stop_on_error=True, ...)
IngestShotCall(outs) ==
    [stop_on_error |-> TRUE,
     summary |-> ExecuteFrom(IngestStages, outs, TRUE, 1, << >>, "processing")]

\* IngestCLI.run under main(): the exit code of the process, and the
\* ingest_shot calls it made.  Neither process_single_shot nor process_batch
\* reads args.continue_on_error or the summaries' overall_success; run()
\* returns and main() falls off its end.
CliMain(args) ==
    IF args.mode = "none"
    THEN [exit_code |-> 1, calls |-> << >>]
    ELSE IF args.mode = "single" /\ ~args.valid
    THEN [exit_code |-> 1, calls |-> << >>]
    ELSE IF args.dry_run
    THEN [exit_code |-> 0, calls |-> << >>]
    ELSE [exit_code |-> 0,
          calls |-> [k \in DOMAIN args.shots |-> IngestShotCall(args.shots[k])]]

(* ----------------------- ConditionalPipeline --------------------------- *)
MsgSkipped == <<"Stage", "skipped", "(condition not met)">>

\* a slip: the skipped result is built with success=False
SkippedResult_Failed(name) == ProcessingResult(name, FALSE, MsgSkipped)


SkippedResult(name) == ProcessingResult(name, TRUE, MsgSkipped)

\* stage.execute(shot_info, **kwargs): the caller's arguments, as they came
ConditionalData(kw) == InitialData(kw)

(* ------------------------- ValidationStage ----------------------------- *)
MaxValidateOps == 2

MsgValidationFailed(name) == <<"Validation failed:", name>>
MsgValidationPassed(name) == <<"Validation passed:", name>>

\* what validate() may call on the result it is given
ValidateOps == {<<"add_error">>} \cup { <<"add_warning", w>> : w \in {<<"warning 1">>, <<"warning 2">>} }

\* the calls validate() makes on the result, in order
RECURSIVE ApplyValidateOps(_, _)
ApplyValidateOps(r, ops) ==
    IF ops = << >> THEN r
    ELSE LET op == Head(ops)
             n == IF op[1] = "add_error"
                  THEN add_error(r, ProcessError)
                  ELSE add_warning(r, op[2])
         IN  ApplyValidateOps(n, Tail(ops))

\* a slip: success is left alone when validate() returns False
ValidationProcess_NoFlip(name, r, v) ==
    LET a == ApplyValidateOps(r, v.ops)
    IN  IF v.kind = "raise" THEN a
        ELSE [a EXCEPT !.data = ("is_valid" :> v.ret) @@ @,
                       !.message = IF v.ret THEN MsgValidationPassed(name)
                                   ELSE MsgValidationFailed(name)]

\* ValidationStage.process: the result as it leaves it (at the raise when
\* validate() raises)
ValidationProcess(name, r, v) ==
    LET a == ApplyValidateOps(r, v.ops)
    IN  IF v.kind = "raise" THEN a
        ELSE LET d == [a EXCEPT !.data = ("is_valid" :> v.ret) @@ @]
             IN  IF ~v.ret
                 THEN [d EXCEPT !.success = FALSE,
                                !.message = MsgValidationFailed(name)]
                 ELSE [d EXCEPT !.message = MsgValidationPassed(name)]

\* PipelineStage.execute of a validation stage
ValidationExecute(name, v, start_time, end_time) ==
    LET fresh == ProcessingResult(name, TRUE, << >>)
        o == Outcome(IF v.kind = "raise" THEN "raise" ELSE "ok", EmptyData,
                     IF v.kind = "raise" THEN "boom" ELSE NoText)
        done == AfterProcess(name, ValidationProcess(name, fresh, v), o)
    IN  [done EXCEPT !.duration_seconds = Some(Elapsed(start_time, end_time))]

(* ---------------------- SonyRawConversionStage -------------------------- *)
\* the ImageSequence dataclass with all its fields
ImageSequenceAt(directory, base_name, extension, first_frame, last_frame, frame_padding) ==
    [directory |-> directory, base_name |-> base_name,
     extension |-> extension, first_frame |-> first_frame,
     last_frame |-> last_frame, frame_padding |-> frame_padding]

\* str.join
RECURSIVE JoinWith(_, _)
JoinWith(parts, sep) ==
    IF parts = << >> THEN << >>
    ELSE IF Len(parts) = 1 THEN parts[1]
    ELSE parts[1] \o sep \o JoinWith(Tail(parts), sep)

\* str(path) of a pathlib path
PathStr(path) ==
    IF path # << >> /\ path[1] = <<"/">>
    THEN <<"/">> \o JoinWith(Tail(path), <<"/">>)
    ELSE JoinWith(path, <<"/">>)

\* Path(str)
PathOf(str) == PathJoin(<< >>, str)

sequence_total_frames(seq) == seq.last_frame - seq.first_frame + 1

sequence_pattern(seq) ==
    seq.base_name \o <<".", "%", "0">> \o Digits(seq.frame_padding)
        \o <<"d", ".">> \o seq.extension

sequence_full_pattern(seq) == PathJoin(seq.directory, sequence_pattern(seq))

\* ImageSequence.to_dict
ImageSequence_to_dict(seq) ==
    [directory |-> PathStr(seq.directory), base_name |-> seq.base_name,
     extension |-> seq.extension, first_frame |-> seq.first_frame,
     last_frame |-> seq.last_frame,
     total_frames |-> sequence_total_frames(seq),
     pattern |-> sequence_pattern(seq),
     full_pattern |-> PathStr(sequence_full_pattern(seq))]

\* a result's data as the dict a stage class fills: the keys that are set
NoData == [k \in {} |-> Absent]

\* what Pipeline.execute looks at in such a dict: the three keys it knows,
\* and whether there are others
MergedData(data) ==
    [dpx_sequence |-> IF "dpx_sequence" \in DOMAIN data THEN "s1" ELSE Absent,
     output_sequence |-> IF "output_sequence" \in DOMAIN data THEN "s2" ELSE Absent,
     proxy_file |-> IF "proxy_file" \in DOMAIN data THEN "p1" ELSE Absent,
     other |-> IF DOMAIN data \ {"dpx_sequence", "output_sequence", "proxy_file"} # {}
               THEN "x" ELSE Absent]

SonyStageName == "SonyRawConversion"
SonyShotName == <<"s", "1">>
SonyDigits == 4

\* how subprocess.run of the tool ends: exit status zero or not, the
\* stage's timeout, no such executable, or another exception
SonyTools == {"zero", "nonzero", "timeout", "not_found", "error"}

\* what the Test-Path check of the WSL route tells: the tool is there, it is
\* not, or the check itself failed
SonyChecks == {"found", "missing", "unknown"}

\* the early returns of process(): the inputs, the source file, the output
\* directory
SonyPre == {"ok", "no_source_path", "no_file", "no_directory"}

MsgSony(what) == <<"Sony", what>>

\* a slip: a failed run of the tool is tried once more
_run_native_Retry(r, tool) ==
    [success |-> tool = "zero",
     result |-> IF tool = "zero" THEN r ELSE add_error(r, MsgSony(tool)),
     runs |-> IF tool = "zero" THEN 1 ELSE 2]

\* _run_native: one subprocess.run inside try / except
_run_native(r, tool) ==
    [success |-> tool = "zero",
     result |-> IF tool = "zero" THEN r ELSE add_error(r, MsgSony(tool)),
     runs |-> 1]

\* _run_via_wsl_interop: the check for the tool, then one subprocess.run
\* inside try / except
_run_via_wsl_interop(r, check, tool) ==
    IF check = "missing"
    THEN [success |-> FALSE, result |-> add_error(r, MsgSony("check")),
          runs |-> 0]
    ELSE [success |-> tool = "zero",
          result |-> IF tool = "zero" THEN r ELSE add_error(r, MsgSony(tool)),
          runs |-> 1]

_run_sony_conversion(is_wsl, r, check, tool) ==
    IF is_wsl THEN _run_via_wsl_interop(r, check, tool)
    ELSE _run_native(r, tool)

\* the frames the stage asks the tool for
SonyFrameCount(shot) ==
    LET in_frame == shot.editorial_info.in_point - HEAD_HANDLE_FRAMES
        out_frame == shot.editorial_info.out_point + TAIL_HANDLE_FRAMES
    IN  out_frame - in_frame + 1

\* a slip: the last frame is one too far
SonyLastFrame_OffByOne(shot) == shot.first_frame + SonyFrameCount(shot)

\* output_last_frame
SonyLastFrame(shot) == shot.first_frame + SonyFrameCount(shot) - 1

\* SonyRawConversionStage.process: the result as it leaves it, and the
\* number of times the tool was started
SonyProcess(shot, r, env) ==
    IF env.pre # "ok"
    THEN [result |-> add_error(r, MsgSony(env.pre)), runs |-> 0]
    ELSE LET output_dir == PathOf(<<"/", "t", "/">> \o SonyShotName)
             in_frame == shot.editorial_info.in_point - HEAD_HANDLE_FRAMES
             out_frame == shot.editorial_info.out_point + TAIL_HANDLE_FRAMES
             frame_count == SonyFrameCount(shot)
             output_first_frame == shot.first_frame
             output_last_frame == SonyLastFrame(shot)
             run == _run_sony_conversion(env.is_wsl, r, env.check, env.tool)
         IN  IF ~run.success
             THEN [result |-> run.result, runs |-> run.runs]
             ELSE LET dpx_sequence ==
                          ImageSequenceAt(output_dir, SonyShotName,
                              <<"d", "p", "x">>, output_first_frame,
                              output_last_frame, SonyDigits)
                      existing == IF frame_count - env.missing > 0
                                  THEN frame_count - env.missing ELSE 0
                      w == IF existing # frame_count
                           THEN add_warning(run.result, MsgSony("frames"))
                           ELSE run.result
                      data == [dpx_sequence |-> ImageSequence_to_dict(dpx_sequence),
                               output_dir |-> PathStr(output_dir),
                               frames_created |-> existing,
                               frame_mapping |->
                                  [source_in |-> in_frame,
                                   source_out |-> out_frame,
                                   output_first |-> output_first_frame,
                                   output_last |-> output_last_frame]]
                  IN  [result |-> [w EXCEPT !.data = data @@ @],
                       runs |-> run.runs]

\* PipelineStage.execute of the raw-conversion stage
SonyExecute(shot, env, start_time, end_time) ==
    LET fresh == [ProcessingResult(SonyStageName, TRUE, << >>)
                    EXCEPT !.data = NoData]
        p == SonyProcess(shot, fresh, env)
        done == AfterProcess(SonyStageName, p.result,
                             Outcome("ok", EmptyData, NoText))
    IN  [result |-> [done EXCEPT !.duration_seconds =
                                    Some(Elapsed(start_time, end_time))],
         runs |-> p.runs]

(* ----------------------- KitsuIntegrationStage --------------------------- *)
KitsuStageName == "KitsuIntegration"

MsgKitsu(what) == <<"Kitsu", what>>

\* _authenticate: the stage is logged in already, has no credentials, or
\* logs in, which may raise
_authenticate(r, auth) ==
    IF auth \in {"already", "ok"}
    THEN [ok |-> TRUE, result |-> r]
    ELSE [ok |-> FALSE, result |-> add_error(r, MsgKitsu(auth))]

\* _get_or_create_shot: what it returns (None, or the shot record) and the
\* result.  The project lookup may raise; the fetch by name returns a
\* record, returns None, or raises, and only when it raises is a shot
\* created
_get_or_create_shot(r, env) ==
    IF env.project = "raises"
    THEN [shot |-> None, result |-> add_error(r, MsgKitsu("shot"))]
    ELSE IF env.fetch = "record" THEN [shot |-> Some("shot"), result |-> r]
    ELSE IF env.fetch = "none" THEN [shot |-> None, result |-> r]
    ELSE IF env.create = "record" THEN [shot |-> Some("new shot"), result |-> r]
    ELSE IF env.create = "none" THEN [shot |-> None, result |-> r]
    ELSE [shot |-> None, result |-> add_error(r, MsgKitsu("shot"))]

\* the four later steps: each catches its exceptions; task creation,
\* metadata update and proxy upload add a warning, output-file creation
\* only logs
_create_pipeline_tasks(r, tasks) ==
    IF tasks = "raises" THEN add_warning(r, MsgKitsu("tasks"))
    ELSE [r EXCEPT !.data = ("tasks_created" :> 1) @@ @]

_update_metadata(r, metadata) ==
    IF metadata = "raises" THEN add_warning(r, MsgKitsu("metadata"))
    ELSE [r EXCEPT !.data = ("metadata_updated" :> 1) @@ @]

_create_output_files(r, files) == r

_upload_proxy(r, upload) ==
    IF upload = "ok"
    THEN [r EXCEPT !.data = ("proxy_uploaded" :> TRUE) @@ ("proxy_file" :> "p1") @@ @]
    ELSE add_warning(r, MsgKitsu(upload))

\* KitsuIntegrationStage.process: the result as it leaves it, and the steps
\* it went through
KitsuProcess(r, env) ==
    IF ~env.valid
    THEN [result |-> add_error(r, MsgKitsu("inputs")), steps |-> << >>]
    ELSE LET a == _authenticate(r, env.auth)
         IN  IF ~a.ok
             THEN [result |-> a.result, steps |-> <<"authenticate">>]
             ELSE LET g == _get_or_create_shot(a.result, env)
                  IN  IF g.shot = None
                      THEN [result |-> g.result,
                            steps |-> <<"authenticate", "shot">>]
                      ELSE LET t == IF env.tasks # "skip"
                                    THEN _create_pipeline_tasks(g.result, env.tasks)
                                    ELSE g.result
                               m == _update_metadata(t, env.metadata)
                               f == IF env.files # "skip"
                                    THEN _create_output_files(m, env.files)
                                    ELSE m
                               u == IF env.upload # "skip"
                                    THEN _upload_proxy(f, env.upload)
                                    ELSE f
                               d == [u EXCEPT !.data =
                                       ("kitsu_shot_id" :> g.shot[1]) @@ @]
                           IN  [result |-> d,
                                steps |-> <<"authenticate", "shot">>
                                   \o (IF env.tasks # "skip" THEN <<"tasks">> ELSE << >>)
                                   \o <<"metadata">>
                                   \o (IF env.files # "skip" THEN <<"files">> ELSE << >>)
                                   \o (IF env.upload # "skip" THEN <<"upload">> ELSE << >>)]

\* PipelineStage.execute of the tracking-service stage
KitsuExecute(env, start_time, end_time) ==
    LET fresh == [ProcessingResult(KitsuStageName, TRUE, << >>)
                    EXCEPT !.data = NoData]
        p == KitsuProcess(fresh, env)
        done == AfterProcess(KitsuStageName, p.result,
                             Outcome("ok", EmptyData, NoText))
    IN  [result |-> [done EXCEPT !.duration_seconds =
                                    Some(Elapsed(start_time, end_time))],
         steps |-> p.steps]

(* ------------------- sequences handed between stages ------------------- *)
DEFAULT_FRAME_PADDING == 4

\* the fields of the ImageSequence dataclass, and those without a default
SequenceFields ==
    {"directory", "base_name", "extension", "first_frame", "last_frame",
     "frame_padding"}
RequiredSequenceFields == SequenceFields \ {"frame_padding"}

\* ImageSequence(**d): a key that is no field, or a missing field without a
\* default, is a TypeError; frame_padding falls back to its default
ImageSequenceFromKwargs(d) ==
    IF ~(DOMAIN d \subseteq SequenceFields)
       \/ ~(RequiredSequenceFields \subseteq DOMAIN d)
    THEN [raised |-> TRUE, sequence |-> None]
    ELSE [raised |-> FALSE,
          sequence |-> Some(ImageSequenceAt(d["directory"], d["base_name"],
              d["extension"], d["first_frame"], d["last_frame"],
              IF "frame_padding" \in DOMAIN d THEN d["frame_padding"]
              ELSE DEFAULT_FRAME_PADDING))]

\* ProxyGenerationStage.process: the constructor's keys are picked out of
\* the dict and the directory is made a Path again
ProxyFromDict(d) ==
    LET filtered_data == [k \in DOMAIN d \cap SequenceFields |->
                            IF k = "directory" THEN PathOf(d[k]) ELSE d[k]]
    IN  ImageSequenceFromKwargs(filtered_data)

\* OIIOColorTransformStage.process and ShotTreeOrganizationStage.process:
\* the dict as it is goes to the constructor
OiioFromDict(d) == ImageSequenceFromKwargs(d)
ShotTreeFromDict(d) == ImageSequenceFromKwargs(d)

Consumers == {"ProxyGeneration", "OIIOColorTransform", "ShotTreeOrganization"}

FromDict(consumer, d) ==
    IF consumer = "ProxyGeneration" THEN ProxyFromDict(d)
    ELSE IF consumer = "OIIOColorTransform" THEN OiioFromDict(d)
    ELSE ShotTreeFromDict(d)

(* ----------------------------- CleanupStage ------------------------------ *)
CleanupStageName == "Cleanup"

MsgCleanup(what) == <<"Cleanup", what>>

\* result.add_warning(error) for each of n errors
RECURSIVE AddWarnings(_, _)
AddWarnings(r, n) ==
    IF n = 0 THEN r
    ELSE AddWarnings(add_warning(r, MsgCleanup("failed to remove")), n - 1)

\* the two removal loops of process(): a directory is removed when the
\* stage removes directories and it is one on disk, a file when it is one
\* on disk; a removal that raises is noted as an error
CleanupLoops(r, kw, env) ==
    LET dirs == IF env.remove_temp_dirs
                THEN kw.temp_dirs \cap env.disk ELSE {}
        files == kw.temp_files \cap env.disk
        removed_items == (dirs \cup files) \ env.failing
        errors == (dirs \cup files) \cap env.failing
        d == [r EXCEPT !.data = ("removed_items" :> removed_items)
                          @@ ("items_removed" :> Cardinality(removed_items))
                          @@ @]
    IN  [result |-> AddWarnings(d, Cardinality(errors)),
         removed |-> removed_items]

\* a slip: the status of the shot is not looked at
CleanupProcess_NoSkip(r, status, kw, env) == CleanupLoops(r, kw, env)

\* CleanupStage.process: the result as it leaves it and what it removed
CleanupProcess(r, status, kw, env) ==
    LET keep_on_error == IF kw.keep_on_error = None THEN TRUE
                         ELSE kw.keep_on_error[1]
    IN  IF keep_on_error /\ status = "error"
        THEN [result |-> add_warning(r, MsgCleanup("skipped")),
              removed |-> {}]
        ELSE CleanupLoops(r, kw, env)

\* PipelineStage.execute of the cleanup stage
CleanupExecute(status, kw, env) ==
    LET fresh == [ProcessingResult(CleanupStageName, TRUE, << >>)
                    EXCEPT !.data = NoData]
        p == CleanupProcess(fresh, status, kw, env)
        done == AfterProcess(CleanupStageName, p.result,
                             Outcome("ok", EmptyData, NoText))
    IN  [result |-> [done EXCEPT !.duration_seconds = Some(Elapsed(0, 0))],
         removed |-> p.removed]

\* the stages in front of the cleanup stage
EarlierStages == <<"A", "B">>

\* Pipeline.execute on a stage list that ends in the cleanup stage: the
\* loop from stage k on, with the results and the status so far
RECURSIVE ExecuteToCleanup(_, _, _, _, _, _, _)
ExecuteToCleanup(outs, stop, kw, env, k, res, st) ==
    IF k > Len(outs)
    THEN LET c == CleanupExecute(st, kw, env)
             after == StatusAfterStage(st, c.result.success)
         IN  [results |-> Append(res, c.result),
              status |-> FinalStatus(after),
              status_at_cleanup |-> Some(st), removed |-> c.removed]
    ELSE LET r == StageExecute(EarlierStages[k], outs[k], 0, 0)
             after == StatusAfterStage(st, r.success)
         IN  IF LoopBreaks(r.success, stop)
             THEN [results |-> Append(res, r), status |-> FinalStatus(after),
                   status_at_cleanup |-> None, removed |-> {}]
             ELSE ExecuteToCleanup(outs, stop, kw, env, NextStage(k),
                                   Append(res, r), after)

(* ------------------------------ state ---------------------------------- *)
VARIABLES
    kind,              \* the class of the pipeline object
    stages,            \* self.stages: the stages' names, in order
    stage_conditions,  \* self.stage_conditions: name -> predicate (0: no key)
    results,           \* self.results
    status,            \* shot_info.processing_status
    pc,                \* where the caller / execute() stands
    stop_on_error,     \* the argument of the running execute()
    kwargs,            \* the **kwargs of the running execute()
    pipeline_data,     \* Pipeline.execute's local pipeline_data
    i,                 \* the loop's position in self.stages
    start_time,        \* the running stage's _start_time
    clock,             \* time.time(), counted from the start of the run
    summary,           \* what execute() returned: << >> or << summary >>
    registered,        \* history: per stage, the predicate it was added with
    invoked,           \* history: the stage.execute calls of this run
    returned,          \* history: what each of them returned
    evals,             \* history: the predicate evaluations of this run
    stage_result,      \* a stage's result object while its process() works
    result_pc,         \* where that stage's execute() stands
    result_ops,        \* history: the calls process() made on the result
    editorial_info,    \* the last EditorialCutInfo built (None before)
    shot_info,         \* the last ShotInfo built (None before)
    built_by,          \* the entry point that built them
    rejected,          \* the entry point refused its arguments
    stage_ran,         \* the pipeline's first stage was started on the shot
    naming_args,       \* the arguments the naming functions are called with
    naming,            \* the names and paths derived from them (None before)
    image_sequence,    \* an ImageSequence
    disk,              \* the paths that exist on disk
    existing_frames,   \* what verify_exists() returned (None before)
    report,            \* the save_report() call made on the pipeline (None before)
    cli_args,          \* the command line of a run of the program (None before)
    cli_run,           \* what that run did and its exit code (None before)
    validate_call,     \* what validate() does when it is called (None before)
    validation_result, \* what the stage's execute() returned (None before)
    sony_call,         \* the shot and the environment of a raw-conversion run (None before)
    sony_run,          \* what the raw-conversion stage's execute() did (None before)
    kitsu_call,        \* what the tracking service answers during a run (None before)
    kitsu_run,         \* what the tracking-service stage's execute() did (None before)
    kept_summary,      \* the summary a caller kept of an earlier execute() (None before)
    published,         \* the sequence a stage published and the dict it published (None before)
    received,          \* what a consuming stage made of the dict (None before)
    cleanup_call,      \* the arguments and the environment of such a run (None before)
    cleanup_run        \* what that run did (None before)

pipevars == <<kind, stages, stage_conditions, results, status, pc, stop_on_error,
          kwargs, pipeline_data, i, start_time, clock, summary, registered,
          invoked, returned, evals>>

resultvars == <<stage_result, result_pc, result_ops>>

shotvars == <<editorial_info, shot_info, built_by, rejected, stage_ran>>

namingvars == <<naming_args, naming>>

\* the state of the objects that are looked at on their own
seqvars == <<image_sequence, disk, existing_frames>>

\* the state of the objects that are looked at on their own
\* the objects of the data model
modelvars == <<resultvars, shotvars, namingvars, seqvars, report>>

clivars == <<cli_args, cli_run>>

validationvars == <<validate_call, validation_result>>

sonyvars == <<sony_call, sony_run>>

kitsuvars == <<kitsu_call, kitsu_run>>

runsvars == <<kept_summary>>

handoffvars == <<published, received>>

cleanupvars == <<cleanup_call, cleanup_run>>

\* the command line and the stage classes
stagevars == <<clivars, validationvars, sonyvars, kitsuvars, runsvars, handoffvars, cleanupvars>>

labvars == <<modelvars, stagevars>>

cli_rest == <<pipevars, modelvars, validationvars, sonyvars, kitsuvars, runsvars, handoffvars, cleanupvars>>

validation_rest == <<pipevars, modelvars, clivars, sonyvars, kitsuvars, runsvars, handoffvars, cleanupvars>>

sony_rest == <<pipevars, modelvars, clivars, validationvars, kitsuvars, runsvars, handoffvars, cleanupvars>>

kitsu_rest == <<pipevars, modelvars, clivars, validationvars, sonyvars, runsvars, handoffvars, cleanupvars>>

runs_rest == <<pipevars, modelvars, clivars, validationvars, sonyvars, kitsuvars, handoffvars, cleanupvars>>

handoff_rest == <<pipevars, modelvars, clivars, validationvars, sonyvars, kitsuvars, runsvars, cleanupvars>>

cleanup_rest == <<pipevars, modelvars, clivars, validationvars, sonyvars, kitsuvars, runsvars, handoffvars>>

vars == <<pipevars, labvars>>

config == <<kind, stages, stage_conditions, registered>>
history == <<invoked, returned, evals>>

\* no result object is under way
ResultInit ==
    /\ stage_result = ProcessingResult("A", TRUE, << >>)
    /\ result_pc = "none"
    /\ result_ops = << >>

\* no shot has been built
ShotInit ==
    /\ editorial_info = None
    /\ shot_info = None
    /\ built_by = "none"
    /\ rejected = FALSE
    /\ stage_ran = FALSE

\* nothing has been derived; the arguments are those of the documented example
NamingInit ==
    /\ naming_args = ExampleArgs
    /\ naming = None

\* a sequence of one frame in an empty directory, not verified yet
SequenceInit ==
    /\ image_sequence = ImageSequence(8, 8, FRAME_PADDING)
    /\ disk = {}
    /\ existing_frames = None

\* the program has not been started
CliInit ==
    /\ cli_args = None
    /\ cli_run = None

\* no validation stage has been executed
ValidationInit ==
    /\ validate_call = None
    /\ validation_result = None

\* the raw-conversion stage has not been executed
SonyInit ==
    /\ sony_call = None
    /\ sony_run = None

\* the tracking-service stage has not been executed
KitsuInit ==
    /\ kitsu_call = None
    /\ kitsu_run = None

\* the caller has kept no summary of an earlier run
RunsInit ==
    /\ kept_summary = None

\* no sequence has been handed from one stage to the next
HandoffInit ==
    /\ published = None
    /\ received = None

\* no pipeline ending in the cleanup stage has been executed
CleanupInit ==
    /\ cleanup_call = None
    /\ cleanup_run = None

StageLabInit ==
    /\ CliInit
    /\ ValidationInit
    /\ SonyInit
    /\ KitsuInit
    /\ RunsInit
    /\ HandoffInit
    /\ CleanupInit

LabInit ==
    /\ ResultInit
    /\ ShotInit
    /\ NamingInit
    /\ SequenceInit
    /\ report = None
    /\ StageLabInit

Init ==
    /\ kind \in {"Pipeline", "ConditionalPipeline"}
    /\ stages = << >>
    /\ stage_conditions = [n \in Names |-> 0]
    /\ results = << >>
    /\ status = "pending"
    /\ pc = "idle"
    /\ stop_on_error = TRUE
    /\ kwargs \in KwargChoices
    /\ pipeline_data = InitialData(kwargs)
    /\ i = 0
    /\ start_time = 0
    /\ clock = 0
    /\ summary = << >>
    /\ registered = << >>
    /\ invoked = << >>
    /\ returned = << >>
    /\ evals = << >>
    /\ LabInit

\* the caller holds the object and no execute() is running
AtRest == pc \in {"idle", "done", "raised"}

\* the stage list can still grow within the bounds
MayGrow ==
    Len(stages) < (IF kind = "Pipeline" THEN MaxStages ELSE MaxCondStages)

(* ------------------------------ actions -------------------------------- *)
add_stage ==
    /\ AtRest
    /\ MayGrow
    /\ \E name \in Names :
         /\ stages' = Append(stages, name)
         /\ registered' = Append(registered, 0)
    /\ pc' = "idle"
    /\ summary' = << >>
    /\ UNCHANGED <<kind, stage_conditions, results, status, stop_on_error,
                   kwargs, pipeline_data, i, start_time, clock, history>>
    /\ UNCHANGED labvars

add_conditional_stage ==
    /\ AtRest
    /\ kind = "ConditionalPipeline"
    /\ MayGrow
    /\ \E name \in Names :
         /\ stages' = Append(stages, name)
         /\ stage_conditions' =
                [stage_conditions EXCEPT ![name] = Len(stages) + 1]
         /\ registered' = Append(registered, Len(stages) + 1)
    /\ pc' = "idle"
    /\ summary' = << >>
    /\ UNCHANGED <<kind, results, status, stop_on_error, kwargs,
                   pipeline_data, i, start_time, clock, history>>
    /\ UNCHANGED labvars

\* Pipeline.execute up to the loop
ExecuteBegin ==
    /\ AtRest
    /\ kind = "Pipeline"
    /\ \E stop \in BOOLEAN, kw \in KwargChoices :
         /\ stop_on_error' = stop
         /\ kwargs' = kw
         /\ pipeline_data' = InitialData(kw)
    /\ results' = ResetResults(results)
    /\ status' = "processing"
    /\ i' = 1
    /\ pc' = IF Len(stages) = 0 THEN "finish" ELSE "loop"
    /\ summary' = << >>
    /\ invoked' = << >>
    /\ returned' = << >>
    /\ evals' = << >>
    /\ start_time' = 0
    /\ clock' = 0
    /\ UNCHANGED config
    /\ UNCHANGED labvars

\* the loop calls stage.execute(shot_info, **pipeline_data)
ExecuteCallStage ==
    /\ kind = "Pipeline"
    /\ pc = "loop"
    /\ start_time' = clock
    /\ invoked' = Append(invoked, [stage |-> i, context |-> pipeline_data])
    /\ pc' = "in_stage"
    /\ UNCHANGED <<config, results, status, stop_on_error, kwargs,
                   pipeline_data, i, clock, summary, returned, evals>>
    /\ UNCHANGED labvars

\* the stage returns; the rest of the loop body
ExecuteStageReturn ==
    /\ kind = "Pipeline"
    /\ pc = "in_stage"
    /\ \E o \in Outcomes, end_time \in clock..MaxClock :
         LET result == StageExecute(stages[i], o, start_time, end_time)
         IN  /\ clock' = end_time
             /\ results' = Append(results, result)
             /\ pipeline_data' =
                    MergeOutputs(pipeline_data, stages[i], result.data)
             /\ status' = StatusAfterStage(status, result.success)
             /\ returned' = Append(returned,
                    [stage |-> i, outcome |-> o, result |-> result])
             /\ IF LoopBreaks(result.success, stop_on_error)
                   \/ i = Len(stages)
                THEN pc' = "finish" /\ i' = i
                ELSE pc' = "loop" /\ i' = NextStage(i)
    /\ UNCHANGED <<config, stop_on_error, kwargs, start_time, summary,
                   invoked, evals>>
    /\ UNCHANGED labvars

\* after the loop: the final status and the summary
ExecuteFinish ==
    /\ kind = "Pipeline"
    /\ pc = "finish"
    /\ status' = FinalStatus(status)
    /\ summary' = << _build_summary(stages, results, FinalStatus(status)) >>
    /\ pc' = "done"
    /\ UNCHANGED <<config, results, stop_on_error, kwargs, pipeline_data, i,
                   start_time, clock, history>>
    /\ UNCHANGED labvars

\* ConditionalPipeline.execute up to the loop
CondExecuteBegin ==
    /\ AtRest
    /\ kind = "ConditionalPipeline"
    /\ \E stop \in BOOLEAN, kw \in KwargChoices :
         /\ stop_on_error' = stop
         /\ kwargs' = kw
    /\ results' = ResetResults(results)
    /\ status' = "processing"
    /\ i' = 1
    /\ pc' = IF Len(stages) = 0 THEN "finish" ELSE "loop"
    /\ summary' = << >>
    /\ invoked' = << >>
    /\ returned' = << >>
    /\ evals' = << >>
    /\ start_time' = 0
    /\ clock' = 0
    /\ UNCHANGED <<config, pipeline_data>>
    /\ UNCHANGED labvars

\* the stage's name is a key of stage_conditions and the predicate found
\* there returns False: a skipped result is appended, and the loop continues
CondSkipStage ==
    /\ kind = "ConditionalPipeline"
    /\ pc = "loop"
    /\ stage_conditions[stages[i]] # 0
    /\ evals' = Append(evals,
           [stage |-> i, predicate |-> stage_conditions[stages[i]],
            out |-> "false"])
    /\ results' = Append(results, SkippedResult(stages[i]))
    /\ IF i = Len(stages)
       THEN pc' = "finish" /\ i' = i
       ELSE pc' = "loop" /\ i' = NextStage(i)
    /\ UNCHANGED <<config, status, stop_on_error, kwargs, pipeline_data,
                   start_time, clock, summary, invoked, returned>>
    /\ UNCHANGED labvars

\* the predicate raises: nothing in execute catches it
CondPredicateRaises ==
    /\ kind = "ConditionalPipeline"
    /\ pc = "loop"
    /\ stage_conditions[stages[i]] # 0
    /\ evals' = Append(evals,
           [stage |-> i, predicate |-> stage_conditions[stages[i]],
            out |-> "raise"])
    /\ pc' = "raised"
    /\ UNCHANGED <<config, results, status, stop_on_error, kwargs,
                   pipeline_data, i, start_time, clock, summary, invoked,
                   returned>>
    /\ UNCHANGED labvars

\* no predicate under the stage's name, or it returns True:
\* stage.execute(shot_info, **kwargs) is called
CondCallStage ==
    /\ kind = "ConditionalPipeline"
    /\ pc = "loop"
    /\ evals' = IF stage_conditions[stages[i]] # 0
                THEN Append(evals,
                       [stage |-> i,
                        predicate |-> stage_conditions[stages[i]],
                        out |-> "true"])
                ELSE evals
    /\ start_time' = clock
    /\ invoked' = Append(invoked,
           [stage |-> i, context |-> ConditionalData(kwargs)])
    /\ pc' = "in_stage"
    /\ UNCHANGED <<config, results, status, stop_on_error, kwargs,
                   pipeline_data, i, clock, summary, returned>>
    /\ UNCHANGED labvars

CondStageReturn ==
    /\ kind = "ConditionalPipeline"
    /\ pc = "in_stage"
    /\ \E o \in Outcomes, end_time \in clock..MaxClock :
         LET result == StageExecute(stages[i], o, start_time, end_time)
         IN  /\ clock' = end_time
             /\ results' = Append(results, result)
             /\ status' = StatusAfterStage(status, result.success)
             /\ returned' = Append(returned,
                    [stage |-> i, outcome |-> o, result |-> result])
             /\ IF LoopBreaks(result.success, stop_on_error)
                   \/ i = Len(stages)
                THEN pc' = "finish" /\ i' = i
                ELSE pc' = "loop" /\ i' = NextStage(i)
    /\ UNCHANGED <<config, stop_on_error, kwargs, pipeline_data, start_time,
                   summary, invoked, evals>>
    /\ UNCHANGED labvars

CondFinish ==
    /\ kind = "ConditionalPipeline"
    /\ pc = "finish"
    /\ status' = FinalStatus(status)
    /\ summary' = << _build_summary(stages, results, FinalStatus(status)) >>
    /\ pc' = "done"
    /\ UNCHANGED <<config, results, stop_on_error, kwargs, pipeline_data, i,
                   start_time, clock, history>>
    /\ UNCHANGED labvars



(* ------------- a result object under a stage's process() ---------- *)
WarningTexts == {<<"warning 1">>, <<"warning 2">>}

\* the idle state of the orchestrator, for the objects looked at on their own
PipeIdle ==
    /\ kind = "Pipeline"
    /\ stages = << >>
    /\ stage_conditions = [n \in Names |-> 0]
    /\ results = << >>
    /\ status = "pending"
    /\ pc = "idle"
    /\ stop_on_error = TRUE
    /\ kwargs = [input_sequence |-> Absent, proxy_file |-> Absent]
    /\ pipeline_data = InitialData(kwargs)
    /\ i = 0
    /\ start_time = 0
    /\ clock = 0
    /\ summary = << >>
    /\ registered = << >>
    /\ invoked = << >>
    /\ returned = << >>
    /\ evals = << >>

\* execute() builds the fresh result and calls process()
StageEnter ==
    /\ result_pc \in {"none", "returned"}
    /\ \E name \in Names : stage_result' = ProcessingResult(name, TRUE, << >>)
    /\ result_pc' = "process"
    /\ result_ops' = << >>
    /\ UNCHANGED <<pipevars, shotvars, namingvars, seqvars, report, stagevars>>

\* process() calls result.add_error
ProcessAddsError ==
    /\ result_pc = "process"
    /\ Len(result_ops) < MaxCalls
    /\ stage_result' = add_error(stage_result, ProcessError)
    /\ result_ops' = Append(result_ops,
           [op |-> "add_error", before |-> stage_result.success,
            after |-> stage_result'.success])
    /\ UNCHANGED <<result_pc, pipevars, shotvars, namingvars, seqvars, report, stagevars>>

\* process() calls result.add_warning
ProcessAddsWarning ==
    /\ result_pc = "process"
    /\ Len(result_ops) < MaxCalls
    /\ \E w \in WarningTexts : stage_result' = add_warning(stage_result, w)
    /\ result_ops' = Append(result_ops,
           [op |-> "add_warning", before |-> stage_result.success,
            after |-> stage_result'.success])
    /\ UNCHANGED <<result_pc, pipevars, shotvars, namingvars, seqvars, report, stagevars>>

\* process() returns, or raises, and execute() finishes the result
StageLeave ==
    /\ result_pc = "process"
    /\ \E kd \in {"ok", "raise"} :
         LET o == Outcome(kd, stage_result.data, IF kd = "raise" THEN "boom" ELSE NoText)
             done == AfterProcess(stage_result.stage_name, stage_result, o)
         IN  /\ stage_result' = [done EXCEPT !.duration_seconds =
                            Some(Elapsed(start_time, clock))]
             /\ result_ops' = IF kd = "raise"
                           THEN Append(result_ops,
                                  [op |-> "raise", before |-> stage_result.success,
                                   after |-> stage_result'.success])
                           ELSE result_ops
    /\ result_pc' = "returned"
    /\ UNCHANGED <<pipevars, shotvars, namingvars, seqvars, report, stagevars>>

NextResult ==
    \/ StageEnter
    \/ ProcessAddsError
    \/ ProcessAddsWarning
    \/ StageLeave

InitResult == PipeIdle /\ LabInit

SpecResult == InitResult /\ [][NextResult]_vars

(* ---------------------- building a shot record ------------------------ *)
\* the editorial points, the first frames and the optional frame fields a
\* caller may give
Points == {0, 100, 150, 151}
FirstFrames == {DEFAULT_FIRST_FRAME, 1001}
LastFrames == {None, Some(1000), Some(1059)}
TotalFrames == {None, Some(67)}

\* a caller builds the two records itself
BuildShot ==
    /\ \E in_point \in Points, out_point \in Points,
          first_frame \in FirstFrames, last_frame \in LastFrames,
          total_frames \in TotalFrames :
         /\ editorial_info' = Some(EditorialCutInfo(in_point, out_point))
         /\ shot_info' = Some(ShotInfo(EditorialCutInfo(in_point, out_point),
                                       first_frame, last_frame, total_frames))
    /\ built_by' = "direct"
    /\ rejected' = FALSE
    /\ stage_ran' = FALSE
    /\ UNCHANGED <<pipevars, resultvars, namingvars, seqvars, report, stagevars>>

\* ingest_shot, called directly (by = "ingest_shot") or for one entry of
\* ingest_batch (by = "ingest_batch"): the records are built from the
\* arguments and the pipeline is executed on them
IngestShot(by, in_point, out_point) ==
    /\ editorial_info' = Some(EditorialCutInfo(in_point, out_point))
    /\ shot_info' = Some(ShotInfo(EditorialCutInfo(in_point, out_point),
                                  DEFAULT_FIRST_FRAME, None, None))
    /\ built_by' = by
    /\ rejected' = FALSE
    /\ stage_ran' = TRUE
    /\ UNCHANGED <<pipevars, resultvars, namingvars, seqvars, report, stagevars>>

ingest_shot ==
    \E in_point \in Points, out_point \in Points :
        IngestShot("ingest_shot", in_point, out_point)

ingest_batch ==
    \E in_point \in Points, out_point \in Points :
        IngestShot("ingest_batch", in_point, out_point)

\* the command line, single shot: validate_shot_data, then exit or ingest_shot
process_single_shot ==
    \E in_point \in Points, out_point \in Points :
        IF validate_shot_data(in_point, out_point)
        THEN IngestShot("cli", in_point, out_point)
        ELSE /\ editorial_info' = None
             /\ shot_info' = None
             /\ built_by' = "cli"
             /\ rejected' = TRUE
             /\ stage_ran' = FALSE
             /\ UNCHANGED <<pipevars, resultvars, namingvars, seqvars, report, stagevars>>

NextShot ==
    \/ BuildShot
    \/ ingest_shot
    \/ ingest_batch
    \/ process_single_shot

InitShot == PipeIdle /\ LabInit

SpecShot == InitShot /\ [][NextShot]_vars

(* ------------------- deriving names and paths -------------------------- *)
\* the arguments a caller may pass to the naming functions
ShotNames ==
    { format_shot_name(<<"s", "h", "t">>, <<"1", "0", "0">>), << >>,
      <<"/", "a", "b", "s">>, <<"a", "/", "b">>, <<".">> }
Tasks == { <<"p", "l", "a">>, << >>, <<"c", "/", "x">> }
Elements == { <<"r", "a", "w", "P", "l", "a", "t", "e">>, <<"e", "/", "x">> }
Versions == {1, 12, 999, 1000}
Reps == { <<"m", "a", "i", "n">>, <<"/", "r">> }
Colorspaces == { <<"A", "C", "E", "S", "c", "g">>, <<"s", "R", "G", "B">> }
FrameNumbers == {0, 993, 9999, 10000}
Extensions == { <<"e", "x", "r">> }

NamingArgs ==
    [shot_name : ShotNames, task : Tasks, element : Elements,
     version : Versions, rep : Reps, colorspace : Colorspaces,
     frame : FrameNumbers, extension : Extensions]

\* a caller derives every name and path of one version of one element
DeriveNames ==
    /\ naming = None
    /\ LET a == naming_args
       IN  naming' = Some(
             [version_string |-> format_version(a.version),
              frame_string |-> format_frame(a.frame),
              container_name |->
                  get_version_container_name(a.shot_name, a.task, a.element,
                                             a.version),
              sequence_filename |->
                  get_sequence_filename(a.shot_name, a.task, a.element,
                      a.version, a.rep, a.colorspace, a.frame, a.extension),
              movie_filename |->
                  get_movie_filename(a.shot_name, a.task, a.element,
                      a.version, a.rep, a.colorspace, a.extension),
              shot_path |-> get_shot_path(a.shot_name),
              task_path |-> get_task_path(a.shot_name, a.task),
              version_path |->
                  get_version_path(a.shot_name, a.task, a.element, a.version),
              colorspace_path |->
                  get_colorspace_path(a.shot_name, a.task, a.element,
                      a.version, a.rep, a.colorspace)])
    /\ UNCHANGED <<pipevars, resultvars, shotvars, naming_args, seqvars, report, stagevars>>

NextNaming == DeriveNames

InitNaming ==
    /\ PipeIdle
    /\ ResultInit
    /\ ShotInit
    /\ SequenceInit
    /\ naming_args \in NamingArgs
    /\ naming = None
    /\ report = None
    /\ StageLabInit

SpecNaming == InitNaming /\ [][NextNaming]_vars

(* ------------------- verifying an image sequence ----------------------- *)
\* the frame numbers and paddings of the sequences, and the files that may
\* be on disk: the frames of every sequence under every padding
SeqFrames == 8 .. 11
Paddings == {1, 2}
DiskPaths ==
    { get_frame_path(ImageSequence(f, f, p), f) :
          f \in SeqFrames, p \in Paddings }

VerifyExists ==
    /\ existing_frames = None
    /\ existing_frames' = Some(verify_exists(image_sequence, disk))
    /\ UNCHANGED <<pipevars, resultvars, shotvars, namingvars,
                   image_sequence, disk, report, stagevars>>

NextSequence == VerifyExists

InitSequence ==
    /\ PipeIdle
    /\ ResultInit
    /\ ShotInit
    /\ NamingInit
    /\ \E first_frame \in SeqFrames, last_frame \in SeqFrames,
          frame_padding \in Paddings :
         image_sequence = ImageSequence(first_frame, last_frame, frame_padding)
    /\ disk \in SUBSET DiskPaths
    /\ existing_frames = None
    /\ report = None
    /\ StageLabInit

SpecSequence == InitSequence /\ [][NextSequence]_vars

(* ------------------------- the command line ---------------------------- *)
\* what the two stages of one shot do
CliOutcomes ==
    { Outcome("ok", EmptyData, NoText),
      Outcome("errors", OnlyDpx, NoText),
      Outcome("raise", OnlyOther, "boom") }
ShotRuns == [1..Len(IngestStages) -> CliOutcomes]

\* the runs of the second shot of a batch
SecondRuns == { r \in ShotRuns : r[2].kind = "ok" }

\* the command lines: no mode, one shot, or a batch file of one or two shots
CliArgs ==
    { [mode |-> "none", valid |-> TRUE, dry_run |-> FALSE,
       continue_on_error |-> FALSE, shots |-> << >>] }
    \cup
    { [mode |-> "single", valid |-> v, dry_run |-> d,
       continue_on_error |-> c, shots |-> <<r>>] :
          v \in BOOLEAN, d \in BOOLEAN, c \in BOOLEAN, r \in ShotRuns }
    \cup
    { [mode |-> "batch", valid |-> TRUE, dry_run |-> d,
       continue_on_error |-> c, shots |-> sh] :
          d \in BOOLEAN, c \in BOOLEAN,
          sh \in { <<r>> : r \in ShotRuns }
                   \cup { <<r, q>> : r \in ShotRuns, q \in SecondRuns } }

\* the program is started with a command line
CliStart ==
    /\ cli_args = None
    /\ \E a \in CliArgs : cli_args' = Some(a)
    /\ UNCHANGED <<cli_run, cli_rest>>

\* main() runs to the exit of the process
CliRun ==
    /\ cli_args # None
    /\ cli_run = None
    /\ cli_run' = Some(CliMain(cli_args[1]))
    /\ UNCHANGED <<cli_args, cli_rest>>

NextCli ==
    \/ CliStart
    \/ CliRun

InitCli == PipeIdle /\ LabInit

SpecCli == InitCli /\ [][NextCli]_vars

(* ---- a validation stage executed on its own ---- *)
RECURSIVE SeqsUpTo(_, _)
SeqsUpTo(S, n) ==
    IF n = 0 THEN { << >> }
    ELSE LET shorter == SeqsUpTo(S, n - 1)
         IN  shorter \cup { Append(q, x) : q \in shorter, x \in S }

\* the behaviours of a validate() implementation
ValidateCalls ==
    { [name |-> n, ops |-> ops, kind |-> k[1], ret |-> k[2]] :
        n \in Names, ops \in SeqsUpTo(ValidateOps, MaxValidateOps),
        k \in {<<"return", TRUE>>, <<"return", FALSE>>, <<"raise", FALSE>>} }

\* a validation stage is about to be executed
ValidationStart ==
    /\ validate_call = None
    /\ \E v \in ValidateCalls : validate_call' = Some(v)
    /\ UNCHANGED <<validation_result, validation_rest>>

\* execute() of the validation stage runs to its return
ValidationRun ==
    /\ validate_call # None
    /\ validation_result = None
    /\ validation_result' =
          Some(ValidationExecute(validate_call[1].name, validate_call[1], 0, 1))
    /\ UNCHANGED <<validate_call, validation_rest>>

NextValidation ==
    \/ ValidationStart
    \/ ValidationRun

InitValidation == PipeIdle /\ LabInit

SpecValidation == InitValidation /\ [][NextValidation]_vars

(* ---- the raw-conversion stage executed on its own ---- *)
\* the frame fields a caller gives a ShotInfo: none, both, or a last frame
SonyFrameArgs ==
    { <<None, None>>, <<Some(1059), Some(67)>>, <<Some(1000), None>> }

\* the environments of a run
SonyEnvs ==
    { [pre |-> p, is_wsl |-> FALSE, check |-> "found", tool |-> "zero",
       missing |-> 0] : p \in SonyPre \ {"ok"} }
    \cup
    { [pre |-> "ok", is_wsl |-> w, check |-> c, tool |-> t, missing |-> m] :
        w \in BOOLEAN, c \in SonyChecks, t \in SonyTools, m \in {0, 1} }

\* the stage is about to be executed on a shot
SonyStart ==
    /\ sony_call = None
    /\ \E in_point \in Points, out_point \in Points,
          first_frame \in FirstFrames, fa \in SonyFrameArgs, env \in SonyEnvs :
         sony_call' = Some([shot |-> ShotInfo(EditorialCutInfo(in_point, out_point),
                                              first_frame, fa[1], fa[2]),
                            derived |-> fa[1] = None,
                            env |-> env])
    /\ UNCHANGED <<sony_run, sony_rest>>

\* execute() of the stage runs to its return
SonyRun ==
    /\ sony_call # None
    /\ sony_run = None
    /\ sony_run' = Some(SonyExecute(sony_call[1].shot, sony_call[1].env, 0, 1))
    /\ UNCHANGED <<sony_call, sony_rest>>

NextSony ==
    \/ SonyStart
    \/ SonyRun

InitSony == PipeIdle /\ LabInit

SpecSony == InitSony /\ [][NextSony]_vars

(* ---- the tracking-service stage executed on its own ---- *)
\* the answers of the service up to the shot record
KitsuShotPhases ==
    { [valid |-> FALSE, auth |-> "ok", project |-> "ok", fetch |-> "record",
       create |-> "record"] }
    \cup
    { [valid |-> TRUE, auth |-> a, project |-> "ok", fetch |-> "record",
       create |-> "record"] : a \in {"no_credentials", "fails"} }
    \cup
    { [valid |-> TRUE, auth |-> a, project |-> "raises", fetch |-> "record",
       create |-> "record"] : a \in {"already", "ok"} }
    \cup
    { [valid |-> TRUE, auth |-> a, project |-> "ok", fetch |-> f,
       create |-> "record"] :
         a \in {"already", "ok"}, f \in {"record", "none"} }
    \cup
    { [valid |-> TRUE, auth |-> a, project |-> "ok", fetch |-> "raises",
       create |-> c] :
         a \in {"already", "ok"}, c \in {"record", "none", "raises"} }

\* the later steps: left out by the caller's arguments, done, or failing
KitsuLaterPhases ==
    [tasks : {"skip", "ok", "raises"}, metadata : {"ok", "raises"},
     files : {"skip", "ok", "raises"},
     upload : {"skip", "ok", "no_file", "no_task", "raises"}]

\* the stage is about to be executed
KitsuStart ==
    /\ kitsu_call = None
    /\ \E sp \in KitsuShotPhases, lp \in KitsuLaterPhases :
         kitsu_call' = Some([valid |-> sp.valid, auth |-> sp.auth,
                             project |-> sp.project, fetch |-> sp.fetch,
                             create |-> sp.create, tasks |-> lp.tasks,
                             metadata |-> lp.metadata, files |-> lp.files,
                             upload |-> lp.upload])
    /\ UNCHANGED <<kitsu_run, kitsu_rest>>

\* execute() of the stage runs to its return
KitsuRun ==
    /\ kitsu_call # None
    /\ kitsu_run = None
    /\ kitsu_run' = Some(KitsuExecute(kitsu_call[1], 0, 1))
    /\ UNCHANGED <<kitsu_call, kitsu_rest>>

NextKitsu ==
    \/ KitsuStart
    \/ KitsuRun

InitKitsu == PipeIdle /\ LabInit

SpecKitsu == InitKitsu /\ [][NextKitsu]_vars

(* ---- a sequence handed from one stage to the next ---- *)
HandoffDirectories == { PathOf(<<"/", "t">>), PathOf(<<"/", "t", "/", "s">>) }
HandoffPaddings == {2, DEFAULT_FRAME_PADDING}

\* a producing stage publishes a sequence with to_dict()
Publish ==
    /\ published = None
    /\ \E directory \in HandoffDirectories, first_frame \in SeqFrames,
          last_frame \in SeqFrames, frame_padding \in HandoffPaddings :
         LET seq == ImageSequenceAt(directory, SonyShotName, <<"d", "p", "x">>,
                                    first_frame, last_frame, frame_padding)
         IN  published' = Some([sequence |-> seq,
                                dict |-> ImageSequence_to_dict(seq)])
    /\ UNCHANGED <<received, handoff_rest>>

\* a consuming stage is given the dict and converts it
Consume ==
    /\ published # None
    /\ received = None
    /\ \E consumer \in Consumers :
         received' = Some([consumer |-> consumer,
                           got |-> FromDict(consumer, published[1].dict)])
    /\ UNCHANGED <<published, handoff_rest>>

NextHandoff ==
    \/ Publish
    \/ Consume

InitHandoff == PipeIdle /\ LabInit

SpecHandoff == InitHandoff /\ [][NextHandoff]_vars

(* ---- a pipeline that ends in the cleanup stage ---- *)
TempDirs == {"d1"}
TempFiles == {"f1"}

\* what the one or two stages in front of the cleanup stage do
EarlierRuns ==
    { <<o>> : o \in CliOutcomes } \cup { <<o, q>> : o \in CliOutcomes, q \in CliOutcomes }

\* execute() is about to be called
CleanupStart ==
    /\ cleanup_call = None
    /\ \E outs \in EarlierRuns, stop \in BOOLEAN,
          keep \in {None, Some(TRUE), Some(FALSE)},
          temp_dirs \in SUBSET TempDirs, temp_files \in SUBSET TempFiles,
          on_disk \in SUBSET (TempDirs \cup TempFiles),
          failing \in SUBSET TempDirs, remove_temp_dirs \in BOOLEAN :
         cleanup_call' = Some(
            [outs |-> outs, stop_on_error |-> stop,
             kwargs |-> [keep_on_error |-> keep, temp_dirs |-> temp_dirs,
                         temp_files |-> temp_files],
             env |-> [disk |-> on_disk, failing |-> failing,
                      remove_temp_dirs |-> remove_temp_dirs]])
    /\ UNCHANGED <<cleanup_run, cleanup_rest>>

\* execute() runs to its return
CleanupRun ==
    /\ cleanup_call # None
    /\ cleanup_run = None
    /\ cleanup_run' = Some(ExecuteToCleanup(cleanup_call[1].outs,
                              cleanup_call[1].stop_on_error,
                              cleanup_call[1].kwargs, cleanup_call[1].env,
                              1, << >>, "processing"))
    /\ UNCHANGED <<cleanup_call, cleanup_rest>>

NextCleanup ==
    \/ CleanupStart
    \/ CleanupRun

InitCleanup == PipeIdle /\ LabInit

SpecCleanup == InitCleanup /\ [][NextCleanup]_vars

NextPipeline ==
    \/ add_stage
    \/ ExecuteBegin
    \/ ExecuteCallStage
    \/ ExecuteStageReturn
    \/ ExecuteFinish

NextConditional ==
    \/ add_stage
    \/ add_conditional_stage
    \/ CondExecuteBegin
    \/ CondSkipStage
    \/ CondPredicateRaises
    \/ CondCallStage
    \/ CondStageReturn
    \/ CondFinish

Next ==
    \/ add_stage
    \/ add_conditional_stage
    \/ ExecuteBegin
    \/ ExecuteCallStage
    \/ ExecuteStageReturn
    \/ ExecuteFinish
    \/ CondExecuteBegin
    \/ CondSkipStage
    \/ CondPredicateRaises
    \/ CondCallStage
    \/ CondStageReturn
    \/ CondFinish

InitPipeline == Init /\ kind = "Pipeline"
InitConditional == Init /\ kind = "ConditionalPipeline"

Spec == Init /\ [][Next]_vars
SpecPipeline == InitPipeline /\ [][NextPipeline]_vars
SpecConditional == InitConditional /\ [][NextConditional]_vars

(* --------------------------- saving a report --------------------------- *)
\* the caller, between two operations on the pipeline, saves the report
CallSaveReport ==
    /\ kind = "Pipeline"
    /\ AtRest
    /\ report = None
    /\ \E io \in IoOutcomes :
         LET r == save_report(results, io)
         IN  /\ results' = r.results
             /\ report' = Some([io |-> io, raised |-> r.raised,
                                file |-> r.file, log |-> r.log,
                                results_before |-> results,
                                status_before |-> status])
    /\ UNCHANGED <<config, status, pc, stop_on_error, kwargs, pipeline_data,
                   i, start_time, clock, summary, history>>
    /\ UNCHANGED <<resultvars, shotvars, namingvars, seqvars, stagevars>>

\* the life of a pipeline up to a save_report call; its execute() is
\* always called with the same keyword arguments
NextReport ==
    \/ report = None /\ NextPipeline /\ kwargs' = kwargs
    \/ CallSaveReport

\* a pipeline whose caller has no keyword arguments for execute()
InitReport ==
    /\ InitPipeline
    /\ kwargs = [input_sequence |-> Absent, proxy_file |-> Absent]

SpecReport == InitReport /\ [][NextReport]_vars

(* ---- one pipeline object executed again and again ---- *)
\* the caller keeps the summary execute() returned (as ingest_batch does
\* with the summary of every shot); of it, the two counts are looked at
KeepSummary ==
    /\ pc = "done"
    /\ kept_summary = None
    /\ kept_summary' = Some([total_stages |-> summary[1].total_stages,
                             stage_results |-> Len(summary[1].stage_results)])
    /\ UNCHANGED <<runs_rest>>

\* the life of a pipeline of either class; no time passes in the stages and
\* execute() is always called with the same keyword arguments
NextRuns ==
    \/ Next /\ kwargs' = kwargs /\ clock' = 0
    \/ KeepSummary

InitRuns ==
    /\ Init
    /\ kwargs = [input_sequence |-> Absent, proxy_file |-> Absent]

SpecRuns == InitRuns /\ [][NextRuns]_vars


(* ------------------------- reading the history ------------------------- *)
Contains(message, part) == \E p \in DOMAIN message : message[p] = part

\* the stages of this run that returned a result with success=false
FailedStages ==
    {returned[r].stage : r \in {q \in DOMAIN returned :
                                     ~returned[q].result.success}}

Min(S) == CHOOSE m \in S : \A n \in S : m <= n
Max(S) == CHOOSE m \in S : \A n \in S : m >= n

\* the results list is what the invoked stages returned, in stage order
ResultsAreReturned ==
    /\ Len(results) = Len(returned)
    /\ \A j \in DOMAIN returned :
         /\ returned[j].stage = j
         /\ results[j] = returned[j].result
         /\ results[j].stage_name = stages[j]

InRun == pc \in {"loop", "in_stage", "finish"}

(* ------------------------------ claims --------------------------------- *)

\* C1: in Pipeline.execute with stop_on_error=True no stage after the first
\* failing stage is ever invoked, the results list holds exactly the results
\* of the stages up to and including the first failing one, in stage order,
\* and the final status is "error".
C1_StopsAtFirstFailure ==
    (kind = "Pipeline" /\ stop_on_error) =>
        /\ \A a \in DOMAIN invoked : \A f \in FailedStages :
               invoked[a].stage <= f
        /\ pc = "done" =>
             /\ ResultsAreReturned
             /\ FailedStages # {} =>
                  /\ Len(results) = Min(FailedStages)
                  /\ status = "error"
             /\ FailedStages = {} => Len(results) = Len(stages)

\* C1's case: [A succeeds, B fails, C] stops after B, and C has no result
C1_Witness ==
    /\ kind = "Pipeline" /\ stop_on_error /\ pc = "done"
    /\ Len(stages) = 3 /\ Len(results) = 2
    /\ results[1].success /\ ~results[2].success
    /\ status = "error"

\* C2: in Pipeline.execute with stop_on_error=False every stage is invoked
\* exactly once, in order, whatever failed before; the results list has one
\* result per stage in stage order; once a stage has failed the status is
\* "error" for the rest of the run and at its end.
C2_ContinuesAfterFailure ==
    (kind = "Pipeline" /\ ~stop_on_error) =>
        /\ \A a \in DOMAIN invoked : invoked[a].stage = a
        /\ pc = "done" =>
             /\ Len(invoked) = Len(stages)
             /\ Len(results) = Len(stages)
             /\ ResultsAreReturned
        /\ (InRun \/ pc = "done") /\ FailedStages # {} => status = "error"

\* C2's case: the first stage fails, the two after it run and succeed
C2_Witness ==
    /\ kind = "Pipeline" /\ ~stop_on_error /\ pc = "done"
    /\ Len(stages) = 3 /\ Len(results) = 3
    /\ ~results[1].success /\ results[2].success /\ results[3].success
    /\ status = "error"

\* C3: when Pipeline.execute returns, the status is "complete" if and only
\* if every executed stage returned success=true (so also for the empty
\* list), it is "error" otherwise, and the summary's overall_success is true
\* exactly when the status is "complete".
C3_FinalStatus ==
    (kind = "Pipeline" /\ pc = "done") =>
        /\ status = (IF FailedStages = {} THEN "complete" ELSE "error")
        /\ Len(summary) = 1
        /\ summary[1].overall_success = (status = "complete")

\* C3's case: the empty stage list ends "complete"
C3_Witness ==
    /\ kind = "Pipeline" /\ pc = "done"
    /\ stages = << >>
    /\ status = "complete"
    /\ summary[1].overall_success

\* C4 as stated: over any sequence of execute() calls on one shot record a
\* status that reached "complete" or "error" never goes back to
\* "processing" or "pending", and "error" never becomes "complete".
C4_NeverReverts ==
    [][ /\ status \in {"complete", "error"} =>
             status' \notin {"processing", "pending"}
        /\ status = "error" => status' # "complete"
        /\ status = "processing" => status' # "pending" ]_vars

\* C4, amended: within one execute() call the status only moves forward,
\* processing -> {complete | error}: "error" stays "error" and nothing goes
\* back to "pending"; between calls the status changes only when a new
\* execute() call restarts it at "processing".
C4_ForwardWithinRun ==
    [][ IF AtRest
        THEN status' # status => status' = "processing"
        ELSE /\ status' # "pending"
             /\ status = "error" => status' = "error"
             /\ status = "complete" => status' = "complete" ]_vars

\* C4's case: a run in which a stage failed and a later one succeeded ended
\* in "error"
C4_Witness ==
    /\ pc = "done" /\ status = "error"
    /\ Len(returned) >= 2
    /\ ~returned[1].result.success
    /\ returned[Len(returned)].result.success

\* C5: when a stage's process() raises, PipelineStage.execute returns (the
\* orchestrator goes on to append the result): the result has
\* success=false, an error entry and a message that both contain the error
\* text, and a duration that is set and not negative.  The only exception
\* that leaves an execute() is one of a predicate.
C5_ExceptionBecomesResult ==
    /\ \A r \in DOMAIN returned :
         returned[r].outcome.kind = "raise" =>
            LET res == returned[r].result
                text == returned[r].outcome.text
            IN  /\ ~res.success
                /\ Contains(res.message, text)
                /\ \E e \in DOMAIN res.errors : Contains(res.errors[e], text)
                /\ Len(res.duration_seconds) = 1
                /\ res.duration_seconds[1] >= 0
                /\ Len(results) >= returned[r].stage
                /\ results[returned[r].stage] = res
    /\ pc = "raised" =>
         /\ evals # << >>
         /\ evals[Len(evals)].out = "raise"

\* C5's case: a stage raised after the clock had advanced
C5_Witness ==
    \E r \in DOMAIN returned :
        /\ returned[r].outcome.kind = "raise"
        /\ returned[r].result.duration_seconds = Some(1)
        /\ returned[r].result.data = OnlyOther

\* C6 as stated: every execute() call, of a Pipeline or of a
\* ConditionalPipeline, ends by returning a summary, whatever each stage
\* and each skip predicate does, and never leaves the shot "processing".
C6_AlwaysReturnsSummary ==
    /\ pc # "raised"
    /\ pc = "done" => (Len(summary) = 1 /\ status # "processing")

\* the sequence a result's data publishes: 'output_sequence' is read after
\* 'dpx_sequence', so it is the one that counts when a stage has both
PublishedSequence(data) ==
    IF data.output_sequence # Absent
    THEN data.output_sequence
    ELSE data.dpx_sequence

\* what stage k is due under 'input_sequence': the sequence of the latest
\* stage before k that published one, else the caller's argument
InputSequenceDue(k) ==
    LET pubs == {j \in 1..(k - 1) :
                    PublishedSequence(results[j].data) # Absent}
    IN  IF pubs = {}
        THEN kwargs.input_sequence
        ELSE PublishedSequence(results[Max(pubs)].data)

\* what stage k is due under 'proxy_file': the one of the latest stage
\* before k that published one, else the caller's argument
ProxyFileDue(k) ==
    LET pubs == {j \in 1..(k - 1) : results[j].data.proxy_file # Absent}
    IN  IF pubs = {}
        THEN kwargs.proxy_file
        ELSE results[Max(pubs)].data.proxy_file

\* C7 as stated: in Pipeline.execute stage k receives under
\* 'input_sequence' the sequence published by the latest earlier stage that
\* published one (the caller's argument, or nothing, when none did), and a
\* published 'proxy_file' reaches all later stages unchanged.
C7_ProxyReachesAllLater ==
    kind = "Pipeline" =>
        \A a \in DOMAIN invoked :
            LET k == invoked[a].stage
                context == invoked[a].context
            IN  /\ context.input_sequence = InputSequenceDue(k)
                /\ \A j \in 1..(k - 1) :
                       results[j].data.proxy_file # Absent =>
                           context.proxy_file = results[j].data.proxy_file

\* C7, amended: stage k receives under 'input_sequence' the sequence
\* published by the latest earlier stage that published one, and under
\* 'proxy_file' the proxy file published by the latest earlier stage that
\* published one (in both cases the caller's argument, or nothing, when no
\* earlier stage did): a published 'proxy_file' reaches the later stages
\* unchanged up to and including the next stage that publishes its own.
C7_LatestPublished ==
    kind = "Pipeline" =>
        \A a \in DOMAIN invoked :
            LET k == invoked[a].stage
                context == invoked[a].context
            IN  /\ context.input_sequence = InputSequenceDue(k)
                /\ context.proxy_file = ProxyFileDue(k)

\* C7's case: the third stage, after one that published all the keys and
\* one that published 'dpx_sequence' alone
C7_Witness ==
    /\ kind = "Pipeline"
    /\ \E a \in DOMAIN invoked :
         /\ invoked[a].stage = 3
         /\ results[1].data = AllKnown
         /\ results[2].data = OnlyDpx
         /\ invoked[a].context.input_sequence = "s1"
         /\ invoked[a].context.proxy_file = "p1"

\* the stages of this run whose predicate returned false
SkippedStages ==
    {evals[e].stage : e \in {q \in DOMAIN evals : evals[q].out = "false"}}

\* C8: in ConditionalPipeline.execute a stage whose predicate returned
\* false is not invoked; a result with success=true and a message saying
\* "skipped" stands in its position; a skip does not set the status to
\* "error" (only a failed stage does), does not stop the run, also with
\* stop_on_error=True, and counts as a success in the summary.
C8_SkipIsSuccess ==
    kind = "ConditionalPipeline" =>
        /\ \A k \in SkippedStages :
             /\ \A a \in DOMAIN invoked : invoked[a].stage # k
             /\ Len(results) >= k
             /\ results[k].success
             /\ Contains(results[k].message, "skipped")
             /\ results[k].stage_name = stages[k]
        /\ status = "error" => FailedStages # {}
        /\ (pc = "done" /\ FailedStages = {}) => Len(results) = Len(stages)
        /\ pc = "done" =>
             summary[1].successful_stages =
                 Cardinality(SkippedStages)
                 + Cardinality({r \in DOMAIN returned :
                                   returned[r].result.success})

\* C8's case: a stop_on_error=True run skips its first stage, runs the
\* second and ends "complete"
C8_Witness ==
    /\ kind = "ConditionalPipeline" /\ stop_on_error /\ pc = "done"
    /\ Len(stages) = 2
    /\ SkippedStages = {1}
    /\ \E a \in DOMAIN invoked : invoked[a].stage = 2
    /\ status = "complete"
    /\ summary[1].successful_stages = 2

\* what Pipeline.execute passes to stage k, given the results before it
RECURSIVE PipelineDataBefore(_)
PipelineDataBefore(k) ==
    IF k = 1
    THEN InitialData(kwargs)
    ELSE MergeOutputs(PipelineDataBefore(k - 1), stages[k - 1],
                      results[k - 1].data)

\* C9 as stated: when no predicate is registered or every predicate returns
\* true, ConditionalPipeline.execute gives every stage the context that
\* Pipeline.execute gives it on the same stages and arguments (with the
\* 'input_sequence', 'proxy_file' and '<stage name>_output' entries of the
\* earlier stages).
C9_SameContextAsPipeline ==
    (kind = "ConditionalPipeline"
        /\ \A e \in DOMAIN evals : evals[e].out = "true") =>
        \A a \in DOMAIN invoked :
            invoked[a].context = PipelineDataBefore(invoked[a].stage)

\* C10 as stated: in every summary execute() returns, successful_stages is
\* the number of recorded results with success=true, failed_stages the
\* number of recorded results with success=false, and total_stages the
\* number of stages.
C10_CountsMatchResults ==
    pc = "done" =>
        /\ summary[1].successful_stages =
               Cardinality({j \in DOMAIN results : results[j].success})
        /\ summary[1].failed_stages =
               Cardinality({j \in DOMAIN results : ~results[j].success})
        /\ summary[1].total_stages = Len(stages)

\* the calls of a kind that process() made on the result
OpsOf(kd) == {c \in DOMAIN result_ops : result_ops[c].op = kd}

\* C11: add_error always leaves success=false and add_warning never
\* changes success; so after any sequence of the two, success is false if
\* there was an add_error, and a stage whose process() only added warnings
\* comes out of the executor with success=true.
C11_ErrorsFailWarningsDoNot ==
    /\ \A c \in OpsOf("add_error") : ~result_ops[c].after
    /\ \A c \in OpsOf("add_warning") : result_ops[c].after = result_ops[c].before
    /\ OpsOf("add_error") # {} => ~stage_result.success
    /\ (result_pc = "returned" /\ OpsOf("add_error") = {}
           /\ OpsOf("raise") = {}) =>
          /\ stage_result.success
          /\ stage_result.message = MsgCompleted(stage_result.stage_name)
    /\ Len(stage_result.warnings) = Cardinality(OpsOf("add_warning"))

\* C11's case: process() added warnings only, twice, and the stage returned
C11_Witness ==
    /\ result_pc = "returned"
    /\ Len(result_ops) = 2
    /\ OpsOf("add_warning") = {1, 2}
    /\ stage_result.success
    /\ Len(stage_result.warnings) = 2

\* C12: within one run of Pipeline.execute the stages are started in list
\* order, each at most once; a stage is started only after every stage
\* before it has returned and its result has been appended; at no point
\* are two stages executing.
C12_OneStageAtATime ==
    /\ \A a \in DOMAIN invoked : invoked[a].stage = a
    /\ \A a \in DOMAIN returned : returned[a].stage = invoked[a].stage
    /\ Len(invoked) - Len(returned) = (IF pc = "in_stage" THEN 1 ELSE 0)
    /\ Len(results) = Len(returned)
    /\ pc = "in_stage" =>
          /\ invoked[Len(invoked)].stage = i
          /\ Len(results) = i - 1
          /\ \A k \in 1..(i - 1) : results[k] = returned[k].result

\* C12's case: the third stage is executing after the first two returned
C12_Witness ==
    /\ pc = "in_stage"
    /\ i = 3
    /\ Len(returned) = 2
    /\ Len(invoked) = 3

\* C13: every constructed ShotInfo, whatever optional frame fields the
\* caller supplied, has total_frames = (out_point - in_point + 1) + head
\* handle + tail handle and last_frame = first_frame + total_frames - 1.
C13_FrameRangeInvariant ==
    shot_info # None =>
        LET s == shot_info[1]
            total == duration_frames(s.editorial_info)
                         + HEAD_HANDLE_FRAMES + TAIL_HANDLE_FRAMES
        IN  /\ s.total_frames = Some(total)
            /\ s.last_frame = Some(s.first_frame + total - 1)

\* C14: a cut with in-point greater than out-point is never accepted,
\* whichever way it is built, so every cut that reaches a pipeline has a
\* duration of at least 1; a cut with in-point equal to out-point is
\* accepted.
C14_InvertedCutRejected ==
    /\ editorial_info # None =>
          editorial_info[1].in_point <= editorial_info[1].out_point
    /\ stage_ran => duration_frames(editorial_info[1]) >= 1
    /\ rejected => built_by = "cli"

\* the file name of the specification's example
ExampleFilename ==
    <<
      "s", "h", "t", "1", "0", "0", "_", "p", "l", "a", "_", "r",
      "a", "w", "P", "l", "a", "t", "e", "_", "v", "0", "0", "1",
      "_", "m", "a", "i", "n", "_", "A", "C", "E", "S", "c", "g",
      ".", "0", "9", "9", "3", ".", "e", "x", "r" >>

\* C15: for all inputs the sequence file name is the version container
\* name + "_" + rep + "_" + colorspace + "." + frame string + "." + ext,
\* and the movie file name is the same base followed by "." + ext; the
\* example (sht100, pla, rawPlate, 1, main, ACEScg, 993, exr) gives
\* "sht100_pla_rawPlate_v001_main_ACEScg.0993.exr".
C15_FilenameComposition ==
    naming # None =>
        LET a == naming_args
            n == naming[1]
            base == n.container_name \o <<"_">> \o a.rep \o <<"_">>
                        \o a.colorspace
        IN  /\ n.sequence_filename =
                   base \o <<".">> \o n.frame_string \o <<".">> \o a.extension
            /\ n.movie_filename = base \o <<".">> \o a.extension
            /\ a = ExampleArgs => n.sequence_filename = ExampleFilename

\* C15's case: the names of the example have been derived
C15_Witness ==
    /\ naming # None
    /\ naming_args = ExampleArgs
    /\ naming[1].sequence_filename = ExampleFilename

\* the number a string of decimal digits writes
DigitValue(c) == CHOOSE d \in 0..9 : DigitChars[d + 1] = c

RECURSIVE DecimalValue(_)
DecimalValue(ds) ==
    IF ds = << >> THEN 0
    ELSE 10 * DecimalValue(SubSeq(ds, 1, Len(ds) - 1)) + DigitValue(ds[Len(ds)])

IsDigits(ds) == \A k \in DOMAIN ds : \E d \in 1..10 : DigitChars[d] = ds[k]

\* C16: names have fixed width: for every version n >= 1 the version
\* string is "v" followed by exactly 3 decimal digits, and for every frame
\* number f >= 0 the frame string is exactly 4 decimal digits.
C16_FixedWidth ==
    naming # None =>
        LET a == naming_args
            n == naming[1]
        IN  /\ a.version >= 1 =>
                  /\ Head(n.version_string) = "v"
                  /\ Len(n.version_string) = 1 + 3
                  /\ IsDigits(Tail(n.version_string))
            /\ a.frame >= 0 =>
                  /\ Len(n.frame_string) = 4
                  /\ IsDigits(n.frame_string)

\* C16 as the code has it: the widths are minimum widths.  The version
\* string is "v" and the decimal digits of n, zero-padded to 3 digits: 3
\* digits exactly for 1 <= n <= 999, and all the digits of n, without a
\* leading zero, for a larger n.  The frame string is the decimal digits of
\* f zero-padded to 4 digits: 4 exactly for 0 <= f <= 9999, all the digits
\* of f for a larger f.
C16_MinimumWidth ==
    naming # None =>
        LET a == naming_args
            n == naming[1]
            vd == Tail(n.version_string)
            fd == n.frame_string
        IN  /\ Head(n.version_string) = "v"
            /\ IsDigits(vd) /\ DecimalValue(vd) = a.version
            /\ IF a.version <= 999 THEN Len(vd) = 3
                                   ELSE Len(vd) > 3 /\ Head(vd) # "0"
            /\ IsDigits(fd) /\ DecimalValue(fd) = a.frame
            /\ IF a.frame <= 9999 THEN Len(fd) = 4
                                  ELSE Len(fd) > 4 /\ Head(fd) # "0"

\* C16's case: a version and a frame number wider than the padding
C16_Witness ==
    /\ naming # None
    /\ naming_args.version = 1000
    /\ naming_args.frame = 10000
    /\ naming[1].version_string = <<"v", "1", "0", "0", "0">>
    /\ naming[1].frame_string = <<"1", "0", "0", "0", "0">>

\* path c is path p with exactly one more component
IsChild(c, p) == Len(c) = Len(p) + 1 /\ SubSeq(c, 1, Len(p)) = p

Nested(n) ==
    /\ IsChild(n.shot_path, SHOT_TREE_ROOT)
    /\ IsChild(n.task_path, n.shot_path)
    /\ IsChild(n.version_path, n.task_path)
    /\ IsChild(n.colorspace_path, n.version_path)

\* C17: for all shot, task, element, version, rep and colorspace values
\* the path builders are strictly nested under the configured root: the
\* shot path is a child of the root, the task path a child of the shot
\* path, the version path a child of the task path and the colorspace path
\* a child of the version path.
C17_StrictlyNested == naming # None => Nested(naming[1])

\* the frames of the declared range whose path is on disk
FramesOnDisk ==
    { f \in image_sequence.first_frame .. image_sequence.last_frame :
          get_frame_path(image_sequence, f) \in disk }

\* C19: verify_exists returns, in ascending order and without duplicates,
\* exactly the frame numbers f with first_frame <= f <= last_frame whose
\* derived frame path exists on disk: the empty list for an empty
\* directory, the full range for a fully populated one, and never a frame
\* outside the declared range.
C19_ExactlyTheFramesOnDisk ==
    existing_frames # None =>
        LET e == existing_frames[1]
            first == image_sequence.first_frame
            last == image_sequence.last_frame
        IN  /\ \A j, k \in DOMAIN e : j < k => e[j] < e[k]
            /\ {e[k] : k \in DOMAIN e} = FramesOnDisk
            /\ \A k \in DOMAIN e : first <= e[k] /\ e[k] <= last
            /\ disk = {} => e = << >>
            /\ (first <= last /\ disk = DiskPaths) =>
                   e = [k \in 1..(last - first + 1) |-> first + k - 1]

\* C19's case: a partly populated directory that also holds a frame
\* outside the range and a file of another padding
C19_Witness ==
    /\ existing_frames = Some(<<9, 10>>)
    /\ image_sequence.first_frame = 9
    /\ image_sequence.last_frame = 11
    /\ image_sequence.frame_padding = 2
    /\ get_frame_path(image_sequence, 8) \in disk
    /\ Cardinality(disk) = 4

\* C20: save_report never propagates a failure to its caller: when
\* opening, serializing or writing the report fails it returns normally;
\* and in every case (success, failure, no results) it leaves the
\* accumulated results list and the shot unchanged.
C20_SaveReportIsQuiet ==
    report # None =>
        LET r == report[1]
        IN  /\ ~r.raised
            /\ results = r.results_before
            /\ status = r.status_before
            /\ r.file # None => r.io = "written" /\ r.results_before # << >>
            /\ (r.io # "written" /\ r.results_before # << >>) =>
                   r.log = "Failed to save report"

\* C20's case: the dump of a two-stage run with a failure failed, and the
\* call returned
C20_Witness ==
    /\ report # None
    /\ report[1].io = "dump_fails"
    /\ Len(results) = 2
    /\ status = "error"
    /\ ~report[1].raised
    /\ report[1].file = None

\* the ingest_shot calls of the finished run of the program
CliCalls == IF cli_run = None THEN << >> ELSE cli_run[1].calls

\* C21: the program exits with code 0 when the pipeline run reports
\* overall success, and with a nonzero code whenever a run's summary
\* reports overall_success = false, in single-shot and in batch mode.
C21_ExitCodeFollowsSuccess ==
    (cli_run # None /\ CliCalls # << >>) =>
        (cli_run[1].exit_code = 0
            <=> \A k \in DOMAIN CliCalls : CliCalls[k].summary.overall_success)

\* C22: with --continue-on-error the pipeline is executed with
\* stop_on_error = False, so the stages after a failing stage still run;
\* without it the pipeline stops at the first failing stage.
C22_FlagControlsTheRun ==
    \A k \in DOMAIN CliCalls :
        LET c == CliCalls[k]
            flag == cli_args[1].continue_on_error
        IN  /\ c.stop_on_error = ~flag
            /\ flag => Len(c.summary.stage_results) = Len(IngestStages)

\* C23: in a ConditionalPipeline a predicate governs only the stage it was
\* registered with: a stage added with add_stage is never put to a
\* predicate (so it is invoked whenever the run reaches it, and is never
\* recorded as skipped), and a stage added with add_conditional_stage is
\* decided by its own predicate, also when stages share a name.
C23_OwnPredicateOnly ==
    \A e \in DOMAIN evals :
        /\ registered[evals[e].stage] # 0
        /\ evals[e].predicate = registered[evals[e].stage]

\* C24 as stated: when validate() returns the boolean b, the result of
\* execute() has data['is_valid'] = b and success = b, whatever else
\* validate() did to the result.
C24_SuccessIsTheVerdict ==
    (validation_result # None /\ validate_call[1].kind = "return") =>
        /\ validation_result[1].data["is_valid"] = validate_call[1].ret
        /\ validation_result[1].success = validate_call[1].ret

AddsError(v) == \E k \in DOMAIN v.ops : v.ops[k][1] = "add_error"

\* C24 amended: when validate() returns the boolean b, the result of
\* execute() has data['is_valid'] = b, and success is true exactly when b is
\* true and validate() added no error to the result; warnings do not count.
C24_SuccessNeedsNoErrors ==
    (validation_result # None /\ validate_call[1].kind = "return") =>
        /\ validation_result[1].data["is_valid"] = validate_call[1].ret
        /\ validation_result[1].success =
              (validate_call[1].ret /\ ~AddsError(validate_call[1]))

\* validate() added an error and a warning and still returned True
C24_Witness ==
    /\ validation_result # None
    /\ validate_call[1].kind = "return"
    /\ validate_call[1].ret
    /\ AddsError(validate_call[1])
    /\ Len(validation_result[1].warnings) = 1
    /\ validation_result[1].data["is_valid"]
    /\ ~validation_result[1].success

\* the tool was started and did not end well, or was found missing
SonyToolFailed(env) ==
    /\ env.pre = "ok"
    /\ \/ env.tool \in {"nonzero", "timeout", "not_found"}
       \/ env.is_wsl /\ env.check = "missing"

\* C25: in the raw-conversion stage, when the external tool exits nonzero,
\* exceeds the stage's timeout or cannot be found, the stage returns
\* success = false with an error entry, the tool is not started a second
\* time, and no 'dpx_sequence' is published, so the merge of the result
\* leaves the pipeline's input sequence as it was.
C25_ToolFailureIsAStageError ==
    (sony_run # None /\ SonyToolFailed(sony_call[1].env)) =>
        LET r == sony_run[1].result
        IN  /\ ~r.success
            /\ r.errors # << >>
            /\ sony_run[1].runs <= 1
            /\ "dpx_sequence" \notin DOMAIN r.data
            /\ \A kw \in KwargChoices :
                  MergeOutputs(InitialData(kw), "A", MergedData(r.data)).input_sequence
                      = InitialData(kw).input_sequence

\* the tool ran into the stage's timeout on the native route
C25_Witness ==
    /\ sony_run # None
    /\ sony_call[1].env.pre = "ok"
    /\ ~sony_call[1].env.is_wsl
    /\ sony_call[1].env.tool = "timeout"
    /\ sony_run[1].runs = 1
    /\ ~sony_run[1].result.success

\* C29: for every shot whose frame range was derived from its editorial
\* cut, the sequence the raw-conversion stage publishes spans exactly
\* [shot.first_frame, shot.last_frame], and its frame count
\* (out_point + tail handle) - (in_point - head handle) + 1 equals
\* shot.total_frames.
C29_PublishedRangeIsTheShotRange ==
    (/\ sony_run # None
     /\ sony_call[1].derived
     /\ "dpx_sequence" \in DOMAIN sony_run[1].result.data) =>
        LET shot == sony_call[1].shot
            d == sony_run[1].result.data.dpx_sequence
        IN  /\ d.first_frame = shot.first_frame
            /\ Some(d.last_frame) = shot.last_frame
            /\ Some(d.total_frames) = shot.total_frames
            /\ Some((shot.editorial_info.out_point + TAIL_HANDLE_FRAMES)
                    - (shot.editorial_info.in_point - HEAD_HANDLE_FRAMES) + 1)
                  = shot.total_frames

\* the cut 100..150 of a shot with a derived range was converted
C29_Witness ==
    /\ sony_run # None
    /\ sony_call[1].derived
    /\ sony_call[1].shot.editorial_info = EditorialCutInfo(100, 150)
    /\ "dpx_sequence" \in DOMAIN sony_run[1].result.data
    /\ sony_run[1].result.data.dpx_sequence.total_frames = 67

\* authentication failed, or no shot record was fetched or created
KitsuShotFailed(env) ==
    \/ env.auth \in {"no_credentials", "fails"}
    \/ env.project = "raises"
    \/ env.fetch = "none"
    \/ env.fetch = "raises" /\ env.create # "record"

LaterSteps == {"tasks", "metadata", "files", "upload"}

\* C26: in the tracking-service stage a failure of authentication or of
\* shot fetch / create (a fetch that yields no shot record included) makes
\* the result success = false and skips every later step, whereas a failure
\* of task creation, metadata update, output-file creation or proxy upload
\* adds at most a warning and leaves success = true.
C26_CriticalStepsFailTheStage ==
    (kitsu_run # None /\ kitsu_call[1].valid) =>
        LET env == kitsu_call[1]
            r == kitsu_run[1].result
            steps == kitsu_run[1].steps
        IN  IF KitsuShotFailed(env)
            THEN /\ ~r.success
                 /\ \A k \in DOMAIN steps : steps[k] \notin LaterSteps
            ELSE /\ r.success
                 /\ r.errors = << >>

\* C27: after any sequence of execute() calls on one Pipeline object its
\* results list holds only the results of the most recent run: it is never
\* longer than the stage list, results[k].stage_name is the name of
\* stages[k], and every entry is what this run's call of stage k returned
\* or the skipped result this run recorded for it.
C27_OnlyTheLatestRun ==
    /\ Len(results) <= Len(stages)
    /\ \A k \in DOMAIN results :
         /\ results[k].stage_name = stages[k]
         /\ \/ \E n \in DOMAIN returned :
                  returned[n].stage = k /\ returned[n].result = results[k]
            \/ \E e \in DOMAIN evals :
                  /\ evals[e].stage = k
                  /\ evals[e].out = "false"
                  /\ results[k] = SkippedResult(stages[k])

\* a later run of the same object has ended with fewer results than the
\* run whose summary the caller kept
C27_Witness ==
    /\ kept_summary # None
    /\ pc = "done"
    /\ kept_summary[1].stage_results = 2
    /\ Len(results) = 1
    /\ Len(stages) = 2

\* C28: the dictionary a producing stage publishes with
\* ImageSequence.to_dict() is accepted by every consuming stage's
\* conversion, and the sequence built from it has the directory, base name,
\* extension, first and last frame and padding of the original.
C28_HandoffRoundTrip ==
    received # None =>
        /\ ~received[1].got.raised
        /\ received[1].got.sequence = Some(published[1].sequence)

\* a stop_on_error = False run with keep_on_error left at its default in
\* which a stage in front of the cleanup stage failed
CleanupAfterFailure ==
    /\ cleanup_run # None
    /\ ~cleanup_call[1].stop_on_error
    /\ cleanup_call[1].kwargs.keep_on_error = None
    /\ \E k \in DOMAIN cleanup_call[1].outs :
          ~cleanup_run[1].results[k].success

\* C30: in a stop_on_error = False run, once an earlier stage has failed,
\* the cleanup stage (keep_on_error at its default) removes no temporary
\* file or directory, adds a warning and returns success = true; the
\* shot's final status stays "error".
C30_CleanupKeepsFilesAfterFailure ==
    CleanupAfterFailure =>
        LET run == cleanup_run[1]
            c == run.results[Len(run.results)]
        IN  /\ Len(run.results) = Len(cleanup_call[1].outs) + 1
            /\ c.stage_name = CleanupStageName
            /\ run.removed = {}
            /\ c.warnings # << >>
            /\ c.success
            /\ run.status = "error"

\* the first of two stages failed, and the temporary directory and file the
\* cleanup stage was given are both on disk and removable
C30_Witness ==
    /\ CleanupAfterFailure
    /\ Len(cleanup_call[1].outs) = 2
    /\ ~cleanup_run[1].results[1].success
    /\ cleanup_run[1].results[2].success
    /\ cleanup_call[1].kwargs.temp_dirs = TempDirs
    /\ cleanup_call[1].kwargs.temp_files = TempFiles
    /\ cleanup_call[1].env.disk = TempDirs \cup TempFiles
    /\ cleanup_call[1].env.failing = {}
    /\ cleanup_call[1].env.remove_temp_dirs
    /\ cleanup_run[1].removed = {}

====
